---------------------------- MODULE Spec2Model ----------------------------
(***************************************************************************)
(* A model of the ticket booking agent: the retrying booking loop of       *)
(* WebScraper.book_tickets (src/src/web_scraper.py) and the agent that     *)
(* runs it on a worker thread (src/src/ticket_booking_agent.py).           *)
(*                                                                         *)
(* Strings are modelled as sequences of tokens: "" is << >>, str(e) is     *)
(* <<e>> and f"Booking error: {e}" is <<"Booking error: ", e>>.            *)
(***************************************************************************)
EXTENDS Integers, Sequences, FiniteSets, TLC

(***************************************************************************)
(* Bounds of the model.                                                    *)
(***************************************************************************)
\* the largest ticket_count a caller passes to book_tickets
MaxTickets == 5
\* the largest max_attempts a configuration holds
MaxRetries == 3
\* the number of WebScraper objects (one per worker thread of the agent)
MaxScrapers == 2

(***************************************************************************)
(* Program constants.                                                      *)
(***************************************************************************)
\* web_scraper.py:185  min(remaining_tickets, 4)
PER_ORDER_CAP == 4

ScraperIds == 1..MaxScrapers

\* the messages str(e) of the exceptions the browser driver raises
Messages == {"timeout", "webdriver"}
NoExc == "none"
MaybeExc == Messages \cup {NoExc}

Min(a, b) == IF a <= b THEN a ELSE b

(***************************************************************************)
(* BookingResult (web_scraper.py:41-49).  confirmation_number,             *)
(* booking_details and total_cost keep their defaults except in a          *)
(* successful result.                                                      *)
(***************************************************************************)
BookingResult(success, tickets_booked, error_message) ==
    [success |-> success, tickets_booked |-> tickets_booked,
     error_message |-> error_message]

(***************************************************************************)
(* The page the browser shows, as the two classifiers see it:              *)
(*   keywords: page_source.lower() contains one of the ticket_indicators   *)
(*   navlinks: an element matches a[href*='ticket'], a[href*='book'] or    *)
(*             button[onclick*='ticket']                                   *)
(* page_source is the serialisation of the DOM the selectors are matched   *)
(* against, so an element with 'ticket' or 'book' in an attribute puts     *)
(* that keyword into page_source.                                          *)
(***************************************************************************)
Pages == {p \in [keywords : BOOLEAN, navlinks : BOOLEAN] :
             p.navlinks => p.keywords}
BlankPage == [keywords |-> FALSE, navlinks |-> FALSE]

VARIABLES
    ws,                   \* ws[w]: the WebScraper object w and its book_tickets frame
    is_running,           \* TicketBookingAgent.is_running
    booking_results,      \* TicketBookingAgent.booking_results
    total_tickets_booked, \* TicketBookingAgent.total_tickets_booked
    thread,               \* thread[w]: where worker thread w is in _run_booking_process
    config,               \* the AgentConfig values the run uses
    stop_signal,          \* stop_signal[w]: stop_booking flipped is_running while w ran
    emails,               \* the notifications handed to the EmailSender, in order
    start_returned,       \* what the latest start_booking returned ("none" before)
    form,                 \* one call of _fill_booking_form: its inputs and results
    confirmation,         \* one call of _extract_confirmation_details
    click,                \* one call of _safe_click
    dom,                  \* one call of _extract_form_fields
    classifier,           \* one classification of a page by its source
    bot                   \* the TicketDemoBot of api_server.py

vars == <<ws, is_running, booking_results, total_tickets_booked, thread,
          config, stop_signal, emails, start_returned, form, confirmation,
          click, dom, classifier, bot>>

\* the single calls looked at on their own, and all but the scrapers
callVars == <<form, confirmation, click, dom, classifier, bot>>
agentVars == <<is_running, booking_results, total_tickets_booked, thread,
               config, stop_signal, emails, start_returned, callVars>>

\* all but the single calls
runVars == <<ws, is_running, booking_results, total_tickets_booked, thread,
             config, stop_signal, emails, start_returned>>

(***************************************************************************)
(* WebScraper.__init__ (web_scraper.py:55-75) and the locals of            *)
(* book_tickets.  The fields from loads on observe the run and are read by *)
(* no action:                                                              *)
(*   loads, sleeps:    driver.get and _random_delay calls of this call     *)
(*   attempts_at_call: booking_attempts when book_tickets was entered      *)
(*   results_at_top:   len(results) at the top of the current iteration    *)
(*   branch:           what the current iteration did                      *)
(*   raised:           str(e) of the exception raised in this iteration    *)
(*   quantity:         the ticket_count of the latest _attempt_booking     *)
(*   aborted:          the loop was left by break                          *)
(*   location:         where the browser is: "none", "entry" (website_url), *)
(*                     "sub" (a page a navigation link led to) or          *)
(*                     "submitted" (the page a submit click led to)        *)
(*   moved:            the browser has left website_url during this call   *)
(*   env, steps:       what the page let the latest _attempt_booking do,   *)
(*                     and the steps it took                               *)
(*   trace:            the calls of the latest _attempt_booking, in order  *)
(* browser is the driver process start_browser created: "none", "running"  *)
(* or "quit"; driver tells whether self.driver holds it.                   *)
(***************************************************************************)
\* the page of an attempt on which no step finds anything
NoEnv == [raises |-> NoExc, fields |-> FALSE, captcha |-> "absent",
          solving |-> "none", submit |-> "no_control", keywords |-> FALSE]

NewScraper(max_attempts, llm_agent) ==
    [pc                  |-> "idle",
     max_retries         |-> max_attempts,
     booking_attempts    |-> 0,
     successful_bookings |-> 0,
     ticket_count        |-> 0,
     remaining_tickets   |-> 0,
     results             |-> << >>,
     page                |-> BlankPage,
     driver              |-> FALSE,
     browser             |-> "none",
     loads               |-> 0,
     sleeps              |-> 0,
     attempts_at_call    |-> 0,
     results_at_top      |-> 0,
     branch              |-> "none",
     raised              |-> NoExc,
     quantity            |-> 0,
     aborted             |-> FALSE,
     llm_agent           |-> llm_agent,
     location            |-> "none",
     moved               |-> FALSE,
     env                 |-> NoEnv,
     steps               |-> {},
     trace               |-> << >>]

\* a WebScraper not constructed yet, and one whose with-block has ended
Unborn == [NewScraper(0, FALSE) EXCEPT !.pc = "unborn"]
Closed == [NewScraper(0, FALSE) EXCEPT !.pc = "closed"]

(***************************************************************************)
(* start_browser with _setup_chrome (web_scraper.py:84-131).  outcome is   *)
(*   "ok":            the driver is created and assigned to self.driver    *)
(*   "no_driver":     uc.Chrome / webdriver.Chrome raises: no process      *)
(*   "script_failed": the driver is created, then driver.execute_script    *)
(*                    (line 129) raises: _setup_chrome never returns it    *)
(* Every outcome but "ok" leaves start_browser by its raise (line 99).     *)
(***************************************************************************)
BrowserOutcomes == {"ok", "no_driver", "script_failed"}

StartBrowser(s, outcome) ==
    IF outcome = "ok" THEN [s EXCEPT !.driver = TRUE, !.browser = "running"]
    ELSE IF outcome = "script_failed" THEN [s EXCEPT !.browser = "running"]
    ELSE s

\* close_browser (web_scraper.py:146-153)
CloseBrowser(s) ==
    IF s.driver THEN [s EXCEPT !.browser = "quit"] ELSE s

(***************************************************************************)
(* book_tickets, entry (web_scraper.py:168-169).                           *)
(***************************************************************************)
EnterBookTickets(s, ticket_count) ==
    [s EXCEPT !.pc = "loop",
              !.ticket_count = ticket_count,
              !.remaining_tickets = ticket_count,
              !.results = << >>,
              !.loads = 0, !.sleeps = 0,
              !.attempts_at_call = s.booking_attempts,
              !.results_at_top = 0, !.branch = "none", !.raised = NoExc,
              !.quantity = 0, !.aborted = FALSE,
              !.moved = FALSE, !.env = NoEnv, !.steps = {},
              !.trace = << >>]

\* mutants of the while condition: <= for <, and >= for >
LoopCondition_OffByOne(s) ==
    s.remaining_tickets > 0 /\ s.booking_attempts <= s.max_retries

LoopCondition_AllowZero(s) ==
    s.remaining_tickets >= 0 /\ s.booking_attempts < s.max_retries

\* the while condition (web_scraper.py:171)
LoopCondition(s) ==
    s.remaining_tickets > 0 /\ s.booking_attempts < s.max_retries

\* mutant of the loop top: the attempt is not counted
LoopTop_NoCount(s) ==
    IF LoopCondition(s)
    THEN [s EXCEPT !.pc = "load",
                   !.results_at_top = Len(s.results),
                   !.branch = "none", !.raised = NoExc]
    ELSE [s EXCEPT !.pc = "returned"]

\* web_scraper.py:171-173 and the return of line 214
LoopTop(s) ==
    IF LoopCondition(s)
    THEN [s EXCEPT !.booking_attempts = @ + 1, !.pc = "load",
                   !.results_at_top = Len(s.results),
                   !.branch = "none", !.raised = NoExc]
    ELSE [s EXCEPT !.pc = "returned"]

\* the except clause of book_tickets (web_scraper.py:202-208), then line 211
OnException(s, e) ==
    [s EXCEPT !.results = Append(@, BookingResult(FALSE, 0, <<e>>)),
              !.branch = "exception", !.raised = e,
              !.pc = "delay"]

\* mutant of the page load: the browser stays on the page it is on
LoadPage_NoReload(s, e, p) ==
    IF e # NoExc
    THEN [OnException(s, e) EXCEPT !.loads = @ + 1]
    ELSE [s EXCEPT !.page = IF s.location \in {"none", "entry"} THEN p ELSE @,
                   !.location = IF @ = "none" THEN "entry" ELSE @,
                   !.loads = @ + 1, !.pc = "classify"]

\* driver.get and _wait_for_page_load (web_scraper.py:177-178)
LoadPage(s, e, p) ==
    IF e # NoExc
    THEN [OnException(s, e) EXCEPT !.loads = @ + 1]
    ELSE [s EXCEPT !.page = p, !.location = "entry", !.loads = @ + 1,
                   !.pc = "classify"]

\* _is_ticket_page (web_scraper.py:230-238)
IsTicketPage(p) == p.keywords

\* _needs_navigation (web_scraper.py:240-245)
NeedsNavigation(p) == p.navlinks

\* mutants of the first test: the navigation links are looked at first, and
\* the verdict on the page changes with the attempt
ClassifyPage_NavFirst(s, e) ==
    IF e # NoExc THEN OnException(s, e)
    ELSE IF NeedsNavigation(s.page) THEN [s EXCEPT !.pc = "navigate"]
    ELSE IF IsTicketPage(s.page) THEN [s EXCEPT !.pc = "book"]
    ELSE [s EXCEPT !.pc = "neednav"]

ClassifyPage_FirstAttemptOnly(s, e) ==
    IF e # NoExc THEN OnException(s, e)
    ELSE IF IsTicketPage(s.page) /\ s.loads = 1 THEN [s EXCEPT !.pc = "book"]
    ELSE [s EXCEPT !.pc = "neednav"]

\* the first test of the branch (web_scraper.py:184); page_source may raise
ClassifyPage(s, e) ==
    IF e # NoExc THEN OnException(s, e)
    ELSE IF IsTicketPage(s.page) THEN [s EXCEPT !.pc = "book"]
    ELSE [s EXCEPT !.pc = "neednav"]

\* mutant of the else branch: the iteration ends without leaving the loop
AbortRun_Continue(s) ==
    [s EXCEPT !.branch = "abort", !.aborted = TRUE, !.pc = "delay"]

\* the else branch of book_tickets (web_scraper.py:198-200): break
AbortRun(s) ==
    [s EXCEPT !.branch = "abort", !.aborted = TRUE, !.pc = "returned"]

\* the second test of the branch (web_scraper.py:195); find_elements may raise
CheckNavigation(s, e) ==
    IF e # NoExc THEN OnException(s, e)
    ELSE IF NeedsNavigation(s.page) THEN [s EXCEPT !.pc = "navigate"]
    ELSE AbortRun(s)

(***************************************************************************)
(* _navigate_to_booking_page (web_scraper.py:247-277).  outcome is         *)
(*   "clicked": a selector became clickable, the element was clicked and   *)
(*              the page p loaded: returns True                            *)
(*   "nomatch": every selector timed out: returns False                    *)
(*   a message: another exception was raised and caught by line 275:       *)
(*              returns False                                              *)
(***************************************************************************)
NavigationOutcomes == {"clicked", "nomatch"} \cup Messages

NavigateToBookingPage(outcome) == outcome = "clicked"

(***************************************************************************)
(* _analyze_current_page (web_scraper.py:216-228): {} without an LLM agent *)
(* or when the analysis raises, else whatever JSON the model answered:     *)
(*   "empty":      a falsy value, or a mapping without next_steps          *)
(*   "next_steps": a mapping whose next_steps is a list of strings         *)
(*   "malformed":  any other value; reading it raises in lines 251-255     *)
(* The analysis is read by _navigate_to_booking_page alone, inside its try *)
(* block, and lines 251-255 do nothing with a step they find.              *)
(***************************************************************************)
Analyses(llm_agent) ==
    IF llm_agent THEN {"empty", "next_steps", "malformed"} ELSE {"empty"}

NavigationOutcome(page_analysis, outcome) ==
    IF page_analysis = "malformed" THEN "analysis_error" ELSE outcome

\* mutant of the navigation: an error in reading the analysis is not caught
NavigateStep_AnalysisEscapes(s, outcome, p) ==
    IF outcome = "analysis_error" THEN OnException(s, "webdriver")
    ELSE [s EXCEPT !.branch = IF outcome = "clicked" THEN "nav_ok"
                              ELSE "nav_nomatch",
                   !.page = IF outcome = "clicked" THEN p ELSE @,
                   !.location = IF outcome = "clicked" THEN "sub" ELSE @,
                   !.moved = IF outcome = "clicked" THEN TRUE ELSE @,
                   !.pc = "delay"]

\* web_scraper.py:196: the call, whose return value book_tickets drops
NavigateStep(s, outcome, p) ==
    [s EXCEPT !.branch = IF NavigateToBookingPage(outcome) THEN "nav_ok"
                         ELSE IF outcome = "nomatch" THEN "nav_nomatch"
                         ELSE "nav_error",
              !.raised = IF outcome \in Messages THEN outcome ELSE @,
              !.page = IF outcome = "clicked" THEN p ELSE @,
              !.location = IF outcome = "clicked" THEN "sub" ELSE @,
              !.moved = IF outcome = "clicked" THEN TRUE ELSE @,
              !.pc = "delay"]

(***************************************************************************)
(* _attempt_booking (web_scraper.py:279-328) and the steps it calls.  env  *)
(* holds what the page and the LLM let each step do:                       *)
(*   raises:   an exception reaches the except clause of line 323          *)
(*   fields:   _extract_form_fields returns a non-empty mapping            *)
(*   captcha:  "absent" (every selector raises NoSuchElementException),    *)
(*             "present", or "error" (find_element raises otherwise)       *)
(*   solving:  "solved" (a solution is typed in), "no_solution"            *)
(*             (solve_captcha returns ""), "screenshot_raises",            *)
(*             "input_raises" (no CAPTCHA input field), "none"             *)
(*   submit:   "clicked", "click_failed" (_safe_click returns False),      *)
(*             "no_control" (every selector times out), "raises"           *)
(*   keywords: the page text after the click holds a success indicator     *)
(* An attempt is [ok, steps]: what the step returned and what it did.      *)
(***************************************************************************)
\* mutants of _handle_captcha: a page without CAPTCHA is screenshotted, and
\* a CAPTCHA found without an LLM agent is passed over
HandleCaptcha_AlwaysScreenshot(llm_agent, env) ==
    IF env.captcha = "error" THEN [ok |-> FALSE, steps |-> {"handle_captcha"}]
    ELSE IF ~llm_agent
    THEN [ok |-> env.captcha = "absent", steps |-> {"handle_captcha"}]
    ELSE [ok |-> env.captcha = "absent" \/ env.solving = "solved",
          steps |-> {"handle_captcha", "screenshot", "solve_captcha"}]

HandleCaptcha_PassUnsolved(llm_agent, env) ==
    IF env.captcha = "present" /\ llm_agent
    THEN [ok |-> TRUE,
          steps |-> {"handle_captcha", "captcha_found", "screenshot",
                     "solve_captcha"}]
    ELSE [ok |-> TRUE, steps |-> {"handle_captcha"}]

\* _handle_captcha (web_scraper.py:436-482)
HandleCaptcha(llm_agent, env) ==
    IF env.captcha = "error"
    THEN [ok |-> FALSE, steps |-> {"handle_captcha"}]
    ELSE IF env.captcha = "absent"
    THEN [ok |-> TRUE, steps |-> {"handle_captcha"}]
    ELSE IF ~llm_agent
    THEN [ok |-> FALSE, steps |-> {"handle_captcha", "captcha_found"}]
    ELSE IF env.solving = "screenshot_raises"
    THEN [ok |-> FALSE,
          steps |-> {"handle_captcha", "captcha_found", "screenshot"}]
    ELSE IF env.solving = "solved"
    THEN [ok |-> TRUE,
          steps |-> {"handle_captcha", "captcha_found", "screenshot",
                     "solve_captcha", "captcha_entered"}]
    ELSE [ok |-> FALSE,
          steps |-> {"handle_captcha", "captcha_found", "screenshot",
                     "solve_captcha"}]

\* _verify_submission_success (web_scraper.py:516-524)
VerifySubmissionSuccess(env) == env.keywords

\* mutant of _submit_booking_form: the click decides, not the page
SubmitBookingForm_TrustClick(env) ==
    IF env.submit \in {"clicked", "click_failed"}
    THEN [ok |-> env.submit = "clicked",
          steps |-> {"submit", "safe_click", "verify"}]
    ELSE [ok |-> FALSE, steps |-> {"submit"}]

\* _submit_booking_form (web_scraper.py:484-514)
SubmitBookingForm(env) ==
    IF env.submit \in {"clicked", "click_failed"}
    THEN [ok |-> VerifySubmissionSuccess(env),
          steps |-> {"submit", "safe_click", "verify"}]
    ELSE [ok |-> FALSE, steps |-> {"submit"}]

\* the steps one _attempt_booking takes
AttemptSteps(llm_agent, env) ==
    LET captcha == HandleCaptcha(llm_agent, env)
        submit == SubmitBookingForm(env)
    IN  IF env.raises # NoExc THEN {}
        ELSE IF ~env.fields THEN {"extract"}
        ELSE IF ~captcha.ok THEN {"extract", "fill"} \cup captcha.steps
        ELSE IF ~submit.ok
        THEN {"extract", "fill"} \cup captcha.steps \cup submit.steps
        ELSE {"extract", "fill", "confirmation"}
                \cup captcha.steps \cup submit.steps

\* the calls _submit_booking_form makes, in order
SubmitTrace(env) ==
    IF env.submit \in {"clicked", "click_failed"}
    THEN <<"submit", "safe_click", "verify">>
    ELSE <<"submit">>

\* mutant of _attempt_booking: the form is submitted before the CAPTCHA
AttemptTrace_SubmitFirst(llm_agent, env) ==
    IF env.raises # NoExc THEN << >>
    ELSE IF ~env.fields THEN <<"extract">>
    ELSE <<"extract", "fill">> \o SubmitTrace(env) \o <<"handle_captcha">>
         \o (IF SubmitBookingForm(env).ok /\ HandleCaptcha(llm_agent, env).ok
             THEN <<"confirmation">> ELSE << >>)

\* the calls one _attempt_booking makes, in order (web_scraper.py:283-309)
AttemptTrace(llm_agent, env) ==
    IF env.raises # NoExc THEN << >>
    ELSE IF ~env.fields THEN <<"extract">>
    ELSE IF ~HandleCaptcha(llm_agent, env).ok
    THEN <<"extract", "fill", "handle_captcha">>
    ELSE <<"extract", "fill", "handle_captcha">> \o SubmitTrace(env)
         \o (IF SubmitBookingForm(env).ok THEN <<"confirmation">> ELSE << >>)

\* mutant of _attempt_booking: a failed attempt reports the tickets asked for
AttemptBooking_CountsFailed(llm_agent, env, ticket_count) ==
    IF env.raises # NoExc
    THEN BookingResult(FALSE, 0, <<"Booking error: ", env.raises>>)
    ELSE IF ~env.fields
    THEN BookingResult(FALSE, 0, <<"No booking form found">>)
    ELSE IF ~HandleCaptcha(llm_agent, env).ok
    THEN BookingResult(FALSE, 0, <<"CAPTCHA solving failed">>)
    ELSE IF SubmitBookingForm(env).ok
    THEN BookingResult(TRUE, ticket_count, << >>)
    ELSE BookingResult(FALSE, ticket_count, <<"Form submission failed">>)

AttemptBooking(llm_agent, env, ticket_count) ==
    IF env.raises # NoExc
    THEN BookingResult(FALSE, 0, <<"Booking error: ", env.raises>>)
    ELSE IF ~env.fields
    THEN BookingResult(FALSE, 0, <<"No booking form found">>)
    ELSE IF ~HandleCaptcha(llm_agent, env).ok
    THEN BookingResult(FALSE, 0, <<"CAPTCHA solving failed">>)
    ELSE IF SubmitBookingForm(env).ok
    THEN BookingResult(TRUE, ticket_count, << >>)
    ELSE BookingResult(FALSE, 0, <<"Form submission failed">>)

\* the environments of one attempt; a step that is not reached finds nothing
BookingEnvs ==
    {env \in [raises : MaybeExc, fields : BOOLEAN,
              captcha : {"absent", "present", "error"},
              solving : {"none", "solved", "no_solution", "screenshot_raises",
                         "input_raises"},
              submit : {"clicked", "click_failed", "no_control", "raises"},
              keywords : BOOLEAN] :
        /\ env.raises # NoExc => ~env.fields
        /\ ~env.fields => env.captcha = "absent"
        /\ env.solving = "none" <=> env.captcha # "present"
        /\ (env.captcha = "error" \/ ~env.fields
              \/ env.solving \notin {"none", "solved"})
                => env.submit = "no_control"
        /\ env.keywords => env.submit \in {"clicked", "click_failed"}}

\* mutant of the quantity: the cap alone, whatever remains
BookingQuantity_CapOnly(remaining_tickets) == PER_ORDER_CAP

\* the quantity of one attempt (web_scraper.py:185)
BookingQuantity(remaining_tickets) == Min(remaining_tickets, PER_ORDER_CAP)

\* mutant of the bookkeeping: one booking counted, not its tickets
RecordSuccess_CountsOne(s, result) ==
    [s EXCEPT !.remaining_tickets = @ - 1,
              !.successful_bookings = @ + result.tickets_booked]

\* web_scraper.py:188-190
RecordSuccess(s, result) ==
    [s EXCEPT !.remaining_tickets = @ - result.tickets_booked,
              !.successful_bookings = @ + result.tickets_booked]

\* the booking branch of book_tickets (web_scraper.py:184-193)
BookStep(s, env) ==
    LET quantity == BookingQuantity(s.remaining_tickets)
        result == AttemptBooking(s.llm_agent, env, quantity)
        clicked == "safe_click" \in AttemptSteps(s.llm_agent, env)
                     /\ env.submit = "clicked"
        appended == [s EXCEPT !.results = Append(@, result),
                              !.env = env,
                              !.steps = AttemptSteps(s.llm_agent, env),
                              !.trace = AttemptTrace(s.llm_agent, env),
                              !.location = IF clicked THEN "submitted" ELSE @,
                              !.moved = IF clicked THEN TRUE ELSE @,
                              !.branch = "book",
                              !.raised = env.raises,
                              !.quantity = quantity,
                              !.pc = "delay"]
    IN  IF result.success THEN RecordSuccess(appended, result) ELSE appended

\* the wait before the next iteration (web_scraper.py:210-212)
DelayStep(s) ==
    [s EXCEPT !.sleeps = IF s.remaining_tickets > 0 THEN @ + 1 ELSE @,
              !.env = NoEnv, !.steps = {}, !.trace = << >>,
              !.pc = "loop"]

(***************************************************************************)
(* The steps of book_tickets as actions on scraper w.                      *)
(***************************************************************************)
Set(w, s) == ws' = [ws EXCEPT ![w] = s]

Loop(w) ==
    /\ ws[w].pc = "loop"
    /\ Set(w, LoopTop(ws[w]))
    /\ UNCHANGED agentVars

Load(w) ==
    /\ ws[w].pc = "load"
    /\ \E e \in MaybeExc, p \in Pages : Set(w, LoadPage(ws[w], e, p))
    /\ UNCHANGED agentVars

Classify(w) ==
    /\ ws[w].pc = "classify"
    /\ \E e \in MaybeExc : Set(w, ClassifyPage(ws[w], e))
    /\ UNCHANGED agentVars

Navigation(w) ==
    /\ ws[w].pc = "neednav"
    /\ \E e \in MaybeExc : Set(w, CheckNavigation(ws[w], e))
    /\ UNCHANGED agentVars

Navigate(w) ==
    /\ ws[w].pc = "navigate"
    /\ \E o \in NavigationOutcomes, p \in Pages,
          page_analysis \in Analyses(ws[w].llm_agent) :
          Set(w, NavigateStep(ws[w], NavigationOutcome(page_analysis, o), p))
    /\ UNCHANGED agentVars

Book(w) ==
    /\ ws[w].pc = "book"
    /\ \E env \in BookingEnvs : Set(w, BookStep(ws[w], env))
    /\ UNCHANGED agentVars

Delay(w) ==
    /\ ws[w].pc = "delay"
    /\ Set(w, DelayStep(ws[w]))
    /\ UNCHANGED agentVars

\* the live page changes between two reads of it (a script, a refresh)
PageChanges(w) ==
    /\ ws[w].pc \in {"classify", "neednav"}
    /\ \E p \in Pages \ {ws[w].page} : Set(w, [ws[w] EXCEPT !.page = p])
    /\ UNCHANGED agentVars

\* a caller of WebScraper.book_tickets (web_scraper.py:155)
Call(w) ==
    /\ ws[w].pc \in {"idle", "returned"}
    /\ \E n \in 0..MaxTickets : Set(w, EnterBookTickets(ws[w], n))
    /\ UNCHANGED agentVars

ScraperStep(w) ==
    \/ Loop(w) \/ Load(w) \/ Classify(w) \/ Navigation(w)
    \/ Navigate(w) \/ Book(w) \/ Delay(w) \/ PageChanges(w)

(***************************************************************************)
(* Form filling (web_scraper.py:370-434, llm_agent.py:163-200, 282-298).   *)
(* A field name is the sequence of its characters; a value is a sequence   *)
(* of text pieces, "" being << >> and str(n) the decimal digits of n.      *)
(***************************************************************************)
MaxFields == 3

UpperLetters == <<"A", "B", "C", "D", "E", "F", "G", "H", "I", "J", "K", "L", "M",
                  "N", "O", "P", "Q", "R", "S", "T", "U", "V", "W", "X", "Y", "Z">>
LowerLetters == <<"a", "b", "c", "d", "e", "f", "g", "h", "i", "j", "k", "l", "m",
                  "n", "o", "p", "q", "r", "s", "t", "u", "v", "w", "x", "y", "z">>

\* str.lower()
Lower(s) ==
    [i \in 1..Len(s) |->
        IF \E k \in 1..Len(UpperLetters) : UpperLetters[k] = s[i]
        THEN LowerLetters[CHOOSE k \in 1..Len(UpperLetters) : UpperLetters[k] = s[i]]
        ELSE s[i]]

\* sub in s
Contains(s, sub) ==
    \E i \in 0..(Len(s) - Len(sub)) : SubSeq(s, i + 1, i + Len(sub)) = sub

Digits == <<"0", "1", "2", "3", "4", "5", "6", "7", "8", "9">>

\* str(n) of a natural number
RECURSIVE Str(_)
Str(n) == IF n < 10 THEN <<Digits[n + 1]>>
          ELSE Str(n \div 10) \o <<Digits[(n % 10) + 1]>>

KwName == <<"n", "a", "m", "e">>
KwFirst == <<"f", "i", "r", "s", "t">>
KwLast == <<"l", "a", "s", "t">>
KwEmail == <<"e", "m", "a", "i", "l">>
KwPhone == <<"p", "h", "o", "n", "e">>
KwQuantity == <<"q", "u", "a", "n", "t", "i", "t", "y">>
KwTicket == <<"t", "i", "c", "k", "e", "t">>
KwCount == <<"c", "o", "u", "n", "t">>
KwAddress == <<"a", "d", "d", "r", "e", "s", "s">>

\* the field names of the forms looked at
FieldNames ==
    { <<"f", "u", "l", "l", "_", "n", "a", "m", "e">>,    \* full_name
      <<"e", "m", "a", "i", "l", "_", "a", "d", "d", "r">>,   \* email_addr
      <<"q", "t", "y">>,          \* qty
      <<"F", "i", "r", "s", "t">>,        \* First
      <<"P", "H", "O", "N", "E">>,        \* PHONE
      <<"t", "i", "c", "k", "e", "t", "s">>,      \* tickets
      <<"c", "o", "u", "n", "t">>,        \* count
      <<"a", "d", "d", "r", "e", "s", "s">>,      \* address
      <<"n", "o", "t", "e">> }        \* note

\* user_info: a dict with any of the keys name, email, phone, address
UserKeys == {"name", "email", "phone", "address"}
UserValue(key) ==
    CASE key = "name" -> <<"Jane Doe">>
      [] key = "email" -> <<"jane@x.com">>
      [] key = "phone" -> <<"+15550100">>
      [] key = "address" -> <<"1 High Street">>
UserInfos == {[k \in keys |-> UserValue(k)] : keys \in SUBSET UserKeys}

\* dict.get(key, default)
Get(dict, key, default) == IF key \in DOMAIN dict THEN dict[key] ELSE default

\* mutant of WebScraper._fallback_form_data: every field takes the count
FallbackFormData_AlwaysCount(field_names, user_info, ticket_count) ==
    [f \in field_names |-> Str(ticket_count)]

\* WebScraper._fallback_form_data (web_scraper.py:413-434)
FallbackFormData(field_names, user_info, ticket_count) ==
    [f \in field_names |->
        LET field_lower == Lower(f)
        IN  IF \E kw \in {KwName, KwFirst, KwLast} : Contains(field_lower, kw)
            THEN Get(user_info, "name", <<"John Doe">>)
            ELSE IF Contains(field_lower, KwEmail)
            THEN Get(user_info, "email", <<"user@example.com">>)
            ELSE IF Contains(field_lower, KwPhone)
            THEN Get(user_info, "phone", <<"+1234567890">>)
            ELSE IF \E kw \in {KwQuantity, KwTicket, KwCount} :
                        Contains(field_lower, kw)
            THEN Str(ticket_count)
            ELSE IF Contains(field_lower, KwAddress)
            THEN Get(user_info, "address", <<"123 Main St">>)
            ELSE << >>]

\* LLMAgent._fallback_form_data (llm_agent.py:282-298)
LLMFallbackFormData(form_fields, user_info, ticket_count) ==
    [f \in form_fields |->
        LET field_lower == Lower(f)
        IN  IF Contains(field_lower, KwName)
            THEN Get(user_info, "name", <<"John Doe">>)
            ELSE IF Contains(field_lower, KwEmail)
            THEN Get(user_info, "email", <<"user@example.com">>)
            ELSE IF Contains(field_lower, KwPhone)
            THEN Get(user_info, "phone", <<"+1234567890">>)
            ELSE IF Contains(field_lower, KwQuantity)
                    \/ Contains(field_lower, KwTicket)
            THEN Str(ticket_count)
            ELSE << >>]

(***************************************************************************)
(* LLMAgent.generate_form_data (llm_agent.py:163-200).  The response is    *)
(*   "error":      _query_llm raises                                       *)
(*   "malformed":  the text is not JSON, json.loads raises                 *)
(*   "object":     a JSON object, holding a value for the answered fields  *)
(*   "non_object": JSON of another kind, returned as it is                 *)
(* The result is [dict, data]: dict tells whether data is a mapping.       *)
(***************************************************************************)
Responses == {"error", "malformed", "object", "non_object"}

GenerateFormData(form_fields, user_info, ticket_count, response, answered) ==
    IF response \in {"error", "malformed"}
    THEN [dict |-> TRUE,
          data |-> LLMFallbackFormData(form_fields, user_info, ticket_count)]
    ELSE IF response = "object"
    THEN [dict |-> TRUE, data |-> [f \in answered |-> <<"generated">>]]
    ELSE [dict |-> FALSE, data |-> << >>]

\* _fill_booking_form, lines 377-383: the data the fields are filled with
GeneratedData(f, response, answered) ==
    IF f.llm_agent
    THEN GenerateFormData(f.fields, f.user_info, f.ticket_count, response,
                          answered)
    ELSE [dict |-> TRUE,
          data |-> FallbackFormData(f.fields, f.user_info, f.ticket_count)]

\* what a field's element can take: a text input can be written or not
\* (clear raises), a select has an option with the value, or one with the
\* visible text only, or neither
ElementStates(type) ==
    IF type = "select" THEN {"has_value", "has_text", "has_neither"}
    ELSE {"writable", "broken"}

\* _fill_booking_form, lines 387-403: the calls made for one field, in order,
\* and whether the field was filled.  generated_data.get raises on a value
\* that is no mapping.
FillField_TextFirst(type, element, dict) ==
    IF ~dict THEN [tried |-> <<"get">>, ok |-> FALSE]
    ELSE IF type = "select"
    THEN IF element = "has_text"
         THEN [tried |-> <<"get", "select_by_visible_text">>, ok |-> TRUE]
         ELSE [tried |-> <<"get", "select_by_visible_text", "select_by_value">>,
               ok |-> element = "has_value"]
    ELSE IF element = "writable"
    THEN [tried |-> <<"get", "clear", "send_keys">>, ok |-> TRUE]
    ELSE [tried |-> <<"get", "clear">>, ok |-> FALSE]

FillField(type, element, dict) ==
    IF ~dict THEN [tried |-> <<"get">>, ok |-> FALSE]
    ELSE IF type = "select"
    THEN IF element = "has_value"
         THEN [tried |-> <<"get", "select_by_value">>, ok |-> TRUE]
         ELSE [tried |-> <<"get", "select_by_value", "select_by_visible_text">>,
               ok |-> element = "has_text"]
    ELSE IF element = "writable"
    THEN [tried |-> <<"get", "clear", "send_keys">>, ok |-> TRUE]
    ELSE [tried |-> <<"get", "clear">>, ok |-> FALSE]

\* _fill_booking_form, lines 386-407: a field whose element cannot be filled
\* is skipped, the others are recorded with the value they were given
FilledData(f, elements) ==
    LET ok == {n \in f.fields :
                  FillField(f.kinds[n], elements[n], f.generated.dict).ok}
    IN  [n \in ok |-> Get(f.generated.data, n, << >>)]

NoForm ==
    [pc |-> "none", llm_agent |-> FALSE, fields |-> {}, kinds |-> << >>,
     user_info |-> << >>, ticket_count |-> 0, response |-> "none",
     generated |-> [dict |-> TRUE, data |-> << >>], elements |-> << >>,
     tried |-> << >>, filled |-> << >>]

FormCounts == {1, 3, 12}

Generate ==
    /\ form.pc = "called"
    /\ \E response \in (IF form.llm_agent THEN Responses ELSE {"none"}),
          answered \in SUBSET form.fields :
          /\ response # "object" => answered = form.fields
          /\ form' = [form EXCEPT !.pc = "generated", !.response = response,
                         !.generated = GeneratedData(form, response, answered)]
    /\ UNCHANGED <<runVars, confirmation, click, dom,
                   classifier, bot>>

Fill ==
    /\ form.pc = "generated"
    /\ \E elements \in [form.fields -> {"writable", "broken", "has_value",
                                        "has_text", "has_neither"}] :
          /\ \A n \in form.fields :
                /\ elements[n] \in ElementStates(form.kinds[n])
                /\ ~form.generated.dict =>
                       elements[n] \in {"writable", "has_value"}
          /\ form' = [form EXCEPT
                         !.pc = "filled",
                         !.elements = elements,
                         !.tried = [n \in form.fields |->
                                       FillField(form.kinds[n], elements[n],
                                                 form.generated.dict).tried],
                         !.filled = FilledData(form, elements)]
    /\ UNCHANGED <<runVars, confirmation, click, dom,
                   classifier, bot>>

(***************************************************************************)
(* _extract_confirmation_details (web_scraper.py:526-567).  The page text  *)
(* is the sequence of its characters.  re.search(pattern, page_text,       *)
(* re.IGNORECASE) is worked out for the shape the five patterns share:     *)
(*     key \s* (?:alt|alt)? \s* :? \s* \$? (group)                         *)
(* with the optional parts tried present first and then absent, as the     *)
(* backtracking matcher does; a \s* is always taken whole, since no part   *)
(* that follows one can start with white space.                            *)
(***************************************************************************)
MaxParts == 3

Spaces == {" ", "\t", "\n"}
DigitChars == {Digits[i] : i \in 1..Len(Digits)}
\* [A-Z0-9] under re.IGNORECASE
AlnumChars ==
    DigitChars \cup {UpperLetters[i] : i \in 1..Len(UpperLetters)}
               \cup {LowerLetters[i] : i \in 1..Len(LowerLetters)}

\* the first position from q on that holds no character of class
RECURSIVE RunEnd(_, _, _)
RunEnd(text, q, class) ==
    IF q <= Len(text) /\ text[q] \in class THEN RunEnd(text, q + 1, class)
    ELSE q

\* word stands at position q, whatever the case of the letters
HasAt(text, q, word) ==
    /\ q + Len(word) - 1 <= Len(text)
    /\ Lower(SubSeq(text, q, q + Len(word) - 1)) = word

NoMatch == [found |-> FALSE, group |-> << >>]

\* ([A-Z0-9]+)
CaptureNumber(text, q) ==
    LET e == RunEnd(text, q, AlnumChars)
    IN  IF e > q THEN [found |-> TRUE, group |-> SubSeq(text, q, e - 1)]
        ELSE NoMatch

\* ([0-9]+\.?[0-9]*)
CaptureCost(text, q) ==
    LET e1 == RunEnd(text, q, DigitChars)
        e2 == IF e1 <= Len(text) /\ text[e1] = "." THEN e1 + 1 ELSE e1
        e3 == RunEnd(text, e2, DigitChars)
    IN  IF e1 > q THEN [found |-> TRUE, group |-> SubSeq(text, q, e3 - 1)]
        ELSE NoMatch

Capture(text, q, pattern) ==
    IF pattern.cost THEN CaptureCost(text, q) ELSE CaptureNumber(text, q)

\* \$? (group), the cost patterns only
MatchValue(text, q, pattern) ==
    LET with == IF pattern.cost /\ q <= Len(text) /\ text[q] = "$"
                THEN Capture(text, q + 1, pattern) ELSE NoMatch
    IN  IF with.found THEN with ELSE Capture(text, q, pattern)

\* \s* :? \s* and what follows
MatchTail(text, q, pattern) ==
    LET q1 == RunEnd(text, q, Spaces)
        with == IF q1 <= Len(text) /\ text[q1] = ":"
                THEN MatchValue(text, RunEnd(text, q1 + 1, Spaces), pattern)
                ELSE NoMatch
    IN  IF with.found THEN with ELSE MatchValue(text, q1, pattern)

\* (?:alt|alt)? and what follows, q being past the white space after the key
RECURSIVE MatchGroup(_, _, _, _)
MatchGroup(text, q, alts, pattern) ==
    IF alts = << >> THEN MatchTail(text, q, pattern)
    ELSE LET with == IF HasAt(text, q, Head(alts))
                     THEN MatchTail(text, q + Len(Head(alts)), pattern)
                     ELSE NoMatch
         IN  IF with.found THEN with
             ELSE MatchGroup(text, q, Tail(alts), pattern)

\* the pattern matched with its key at position i
MatchAt(text, i, pattern) ==
    IF HasAt(text, i, pattern.key)
    THEN MatchGroup(text, RunEnd(text, i + Len(pattern.key), Spaces),
                    pattern.alts, pattern)
    ELSE NoMatch

\* mutant of re.search: the last match in the text, not the first
Search_Last(text, pattern) ==
    LET hits == {i \in 1..Len(text) : MatchAt(text, i, pattern).found}
    IN  IF hits = {} THEN NoMatch
        ELSE MatchAt(text, CHOOSE i \in hits : \A j \in hits : j <= i, pattern)

\* re.search(pattern, page_text, re.IGNORECASE): the leftmost match
Search(text, pattern) ==
    LET hits == {i \in 1..Len(text) : MatchAt(text, i, pattern).found}
    IN  IF hits = {} THEN NoMatch
        ELSE MatchAt(text, CHOOSE i \in hits : \A j \in hits : i <= j, pattern)

\* conf_patterns and cost_patterns (web_scraper.py:535-539, 549-552)
ConfPatterns ==
    << [key |-> <<"c", "o", "n", "f", "i", "r", "m", "a", "t", "i", "o", "n">>,
        alts |-> << <<"n", "u", "m", "b", "e", "r">>, <<"#">> >>, cost |-> FALSE],
       [key |-> <<"o", "r", "d", "e", "r">>,
        alts |-> << <<"n", "u", "m", "b", "e", "r">>, <<"#">> >>, cost |-> FALSE],
       [key |-> <<"b", "o", "o", "k", "i", "n", "g">>,
        alts |-> << <<"r", "e", "f", "e", "r", "e", "n", "c", "e">>, <<"#">> >>, cost |-> FALSE] >>

CostPatterns ==
    << [key |-> <<"t", "o", "t", "a", "l">>, alts |-> << >>, cost |-> TRUE],
       [key |-> <<"a", "m", "o", "u", "n", "t">>, alts |-> << >>, cost |-> TRUE] >>

\* mutant of the pattern loop: no break, the last matching pattern decides
RECURSIVE FirstMatch_NoBreak(_, _)
FirstMatch_NoBreak(text, patterns) ==
    IF patterns = << >> THEN NoMatch
    ELSE LET later == FirstMatch_NoBreak(text, Tail(patterns))
         IN  IF later.found THEN later ELSE Search(text, Head(patterns))

\* for pattern in patterns: match = re.search(...); if match: ...; break
RECURSIVE FirstMatch(_, _)
FirstMatch(text, patterns) ==
    IF patterns = << >> THEN NoMatch
    ELSE IF Search(text, Head(patterns)).found
    THEN Search(text, Head(patterns))
    ELSE FirstMatch(text, Tail(patterns))

\* the value of a string of decimal digits
RECURSIVE ToNat(_)
ToNat(digits) ==
    IF digits = << >> THEN 0
    ELSE 10 * ToNat(SubSeq(digits, 1, Len(digits) - 1))
         + (CHOOSE d \in 0..9 : Digits[d + 1] = digits[Len(digits)])

RECURSIVE StripZeros(_)
StripZeros(digits) ==
    IF digits # << >> /\ digits[Len(digits)] = "0"
    THEN StripZeros(SubSeq(digits, 1, Len(digits) - 1))
    ELSE digits

\* mutant of float(): the fraction is dropped
Float_Truncated(group) ==
    [whole |-> ToNat(SubSeq(group, 1, RunEnd(group, 1, DigitChars) - 1)),
     frac |-> << >>]

\* float(match.group(1)): a number is its whole part and the digits of its
\* fraction without the zeros at the end, so that 45.50 = 45.5 and 12. = 12
Float(group) ==
    LET e == RunEnd(group, 1, DigitChars)
    IN  [whole |-> ToNat(SubSeq(group, 1, e - 1)),
         frac |-> StripZeros(SubSeq(group, e + 1, Len(group)))]

\* soup.get_text(): the text outside the tags
RECURSIVE GetText(_)
GetText(text) ==
    IF text = << >> THEN << >>
    ELSE IF Head(text) = "<"
    THEN LET close == {i \in 1..Len(text) : text[i] = ">"}
         IN  IF close = {} THEN << >>
             ELSE GetText(SubSeq(text,
                     (CHOOSE i \in close : \A j \in close : i <= j) + 1,
                     Len(text)))
    ELSE <<Head(text)>> \o GetText(Tail(text))

\* _extract_confirmation_details; raises: page_source or BeautifulSoup raises
ExtractConfirmationDetails(text, raises) ==
    LET number == FirstMatch(text, ConfPatterns)
        cost == FirstMatch(text, CostPatterns)
        keys == {"full_content"}
                  \cup (IF number.found THEN {"number"} ELSE {})
                  \cup (IF cost.found THEN {"total_cost"} ELSE {})
    IN  IF raises THEN << >>
        ELSE [k \in keys |->
                 IF k = "number" THEN number.group
                 ELSE IF k = "total_cost" THEN Float(cost.group)
                 ELSE GetText(text)]

\* what _attempt_booking puts into the BookingResult (web_scraper.py:309-315)
ConfirmationNumber(details) ==
    IF "number" \in DOMAIN details THEN details["number"] ELSE << >>
TotalCost(details) ==
    IF "total_cost" \in DOMAIN details THEN details["total_cost"]
    ELSE [whole |-> 0, frac |-> << >>]

\* pieces of page text
TextParts ==
    { <<"Y", "o", "u", "r", " ">>,
      <<"o", "r", "d", "e", "r", " ", "n", "u", "m", "b", "e", "r", ":", " ", "A", "B", "1", "2", "3", "4", "5", " ">>,
      <<"T", "o", "t", "a", "l", ":", " ", "$", "4", "5", ".", "5", "0">>,
      <<"C", "o", "n", "f", "i", "r", "m", "a", "t", "i", "o", "n", " ", "#", "C", "9", "9", " ">>,
      <<"b", "o", "o", "k", "i", "n", "g", " ", "r", "e", "f", "e", "r", "e", "n", "c", "e", " ", "b", "k", "7", " ">>,
      <<"<", "b", ">", "A", "m", "o", "u", "n", "t", "<", "/", "b", ">", " ", "0", "1", "2", ".", " ">>,
      <<"a", "m", "o", "u", "n", "t", ":", " ", "7", " ">>,
      <<"o", "r", "d", "e", "r", " ", "n", "u", "m", "b", "e", "r", ":", " ", "!", "!", " ">> }

\* the texts made of at most n pieces
RECURSIVE Texts(_)
Texts(n) ==
    IF n = 0 THEN {<< >>}
    ELSE Texts(n - 1) \cup {t \o part : t \in Texts(n - 1), part \in TextParts}

NoConfirmation == [pc |-> "none", text |-> << >>, details |-> << >>]

Extract ==
    /\ confirmation.pc = "page"
    /\ \E raises \in BOOLEAN :
          confirmation' =
              [confirmation EXCEPT
                  !.pc = IF raises THEN "failed" ELSE "extracted",
                  !.details = ExtractConfirmationDetails(confirmation.text,
                                                         raises)]
    /\ UNCHANGED <<runVars, form, click, dom,
                   classifier, bot>>

(***************************************************************************)
(* _safe_click (web_scraper.py:569-596).  Every operation on the element   *)
(* ends in one of the outcomes the driver can give:                        *)
(*   "ok"                              it went through                     *)
(*   "intercepted", "not_interactable" ElementClickInterceptedException,   *)
(*                                     ElementNotInteractableException     *)
(*   "stale"                           StaleElementReferenceException      *)
(*   "error"                           any other exception                 *)
(* A reference that has gone stale stays stale: every later operation on   *)
(* it raises StaleElementReferenceException again.  events lists the       *)
(* operations done so far, each with its outcome.                          *)
(***************************************************************************)
SafeClickMaxAttempts == 3

ClickOutcomes(op, stale) ==
    IF stale THEN {"stale"}
    ELSE IF op = "click"
    THEN {"ok", "intercepted", "not_interactable", "stale", "error"}
    ELSE {"ok", "stale", "error"}

NoClick == [pc |-> "none", attempt |-> 0, stale |-> FALSE, events |-> << >>,
            result |-> "none"]

\* one operation of _safe_click: c.pc names it, outcome is how it ended
SafeClickStep(c, outcome) ==
    LET done == [c EXCEPT !.events = Append(@, <<c.pc, outcome>>),
                          !.stale = @ \/ outcome = "stale"]
        return(value) == [done EXCEPT !.pc = "returned", !.result = value]
        raise == [done EXCEPT !.pc = "raised", !.result = "raised"]
    IN  CASE c.pc = "scroll" ->
                 IF outcome = "ok" THEN [done EXCEPT !.pc = "click"]
                 ELSE IF outcome = "stale" THEN return("False")
                 ELSE raise
          [] c.pc = "click" ->
                 IF outcome = "ok" THEN return("True")
                 ELSE IF outcome \in {"intercepted", "not_interactable"}
                 THEN [done EXCEPT !.pc = "script_click"]
                 ELSE IF outcome = "stale" THEN return("False")
                 ELSE raise
          [] c.pc = "script_click" ->
                 IF outcome = "ok" THEN return("True")
                 ELSE IF c.attempt = SafeClickMaxAttempts - 1
                 THEN return("False")
                 ELSE [done EXCEPT !.pc = "sleep"]
          [] c.pc = "sleep" ->
                 IF c.attempt + 1 < SafeClickMaxAttempts
                 THEN [done EXCEPT !.pc = "scroll", !.attempt = @ + 1]
                 ELSE return("False")

ScrollIntoView ==
    /\ click.pc = "scroll"
    /\ \E outcome \in ClickOutcomes("scroll", click.stale) :
          click' = SafeClickStep(click, outcome)
    /\ UNCHANGED <<runVars, form, confirmation, dom,
                   classifier, bot>>

NativeClick ==
    /\ click.pc = "click"
    /\ \E outcome \in ClickOutcomes("click", click.stale) :
          click' = SafeClickStep(click, outcome)
    /\ UNCHANGED <<runVars, form, confirmation, dom,
                   classifier, bot>>

ScriptClick ==
    /\ click.pc = "script_click"
    /\ \E outcome \in ClickOutcomes("script_click", click.stale) :
          click' = SafeClickStep(click, outcome)
    /\ UNCHANGED <<runVars, form, confirmation, dom,
                   classifier, bot>>

BackOff ==
    /\ click.pc = "sleep"
    /\ click' = SafeClickStep(click, "ok")
    /\ UNCHANGED <<runVars, form, confirmation, dom,
                   classifier, bot>>

(***************************************************************************)
(* _extract_form_fields (web_scraper.py:330-368).  The page is the         *)
(* sequence of its forms, a form the sequence of its input and select      *)
(* elements in document order.  An element has a tag, a type attribute     *)
(* (read for inputs only) and name and id attributes, "" when missing.  A  *)
(* returned field holds its type and its element, named by the place       *)
(* <<form, position>> the element has in the page.                         *)
(***************************************************************************)
MaxElements == 2

InputTypes == {"text", "submit", "button", "hidden"}
NameIds == {[name |-> "", id |-> ""], [name |-> "", id |-> "a"],
            [name |-> "", id |-> "b"], [name |-> "a", id |-> ""],
            [name |-> "a", id |-> "b"]}

Elements ==
    {[tag |-> "input", type |-> ty, name |-> ni.name, id |-> ni.id] :
         ty \in InputTypes, ni \in NameIds}
    \cup {[tag |-> "select", type |-> "", name |-> ni.name, id |-> ni.id] :
              ni \in NameIds}

\* get_attribute("name") or get_attribute("id"), lines 343 and 354
FieldName(e) == IF e.name # "" THEN e.name ELSE e.id

\* lines 341-350: the inputs kept, and lines 353-362: the selects kept
KeptInputs(first) ==
    {i \in DOMAIN first :
        /\ first[i].tag = "input"
        /\ FieldName(first[i]) # ""
        /\ first[i].type \notin {"submit", "button", "hidden"}}

KeptSelects(first) ==
    {i \in DOMAIN first : first[i].tag = "select" /\ FieldName(first[i]) # ""}

Highest(S) == CHOOSE i \in S : \A j \in S : j <= i

\* fields is a dict: an assignment under a name already there replaces the
\* entry, inputs are assigned before selects, each in document order
ExtractFormFields(forms, raises) ==
    IF raises \/ forms = << >> THEN << >>
    ELSE LET first == forms[1]
             inputs == KeptInputs(first)
             selects == KeptSelects(first)
             named(S, n) == {i \in S : FieldName(first[i]) = n}
             entry(n) ==
                 IF named(selects, n) # {}
                 THEN [type |-> "select",
                       element |-> <<1, Highest(named(selects, n))>>]
                 ELSE [type |-> first[Highest(named(inputs, n))].type,
                       element |-> <<1, Highest(named(inputs, n))>>]
         IN  [n \in {FieldName(first[i]) : i \in inputs \cup selects} |->
                 entry(n)]

NoDom == [pc |-> "none", forms |-> << >>, fields |-> << >>]

ExtractFields ==
    /\ dom.pc = "page"
    /\ \E raises \in BOOLEAN :
          dom' = [dom EXCEPT
                     !.pc = IF raises THEN "failed" ELSE "extracted",
                     !.fields = ExtractFormFields(dom.forms, raises)]
    /\ UNCHANGED <<runVars, form, confirmation, click,
                   classifier, bot>>

(***************************************************************************)
(* _is_ticket_page and _needs_navigation (web_scraper.py:230-245) on the   *)
(* page itself.  A page is the sequence of its elements; an element has a  *)
(* tag, the value of its href (a) or onclick (button) attribute and a      *)
(* text.  page_source is the serialisation of these elements; the CSS      *)
(* selectors compare attribute values as they are, letter case included.   *)
(***************************************************************************)
TicketIndicators ==
    {<<"t", "i", "c", "k", "e", "t">>, <<"b", "o", "o", "k">>, <<"p", "u", "r", "c", "h", "a", "s", "e">>, <<"b", "u", "y">>, <<"o", "r", "d", "e", "r">>, <<"r", "e", "s", "e", "r", "v", "e">>,
     <<"q", "u", "a", "n", "t", "i", "t", "y">>, <<"s", "e", "a", "t", "s">>, <<"c", "h", "e", "c", "k", "o", "u", "t">>, <<"c", "a", "r", "t">>}

NodeTexts == {<< >>, <<"A", "b", "o", "u", "t">>, <<"B", "u", "y", " ", "n", "o", "w">>}

Nodes ==
    {[tag |-> "a", value |-> v, text |-> x] :
         v \in {<<"/", "t", "i", "c", "k", "e", "t", "s">>, <<"/", "T", "I", "C", "K", "E", "T">>, <<"/", "b", "o", "o", "k">>, <<"/", "B", "o", "o", "k", "i", "n", "g">>, <<"/", "a", "b", "o", "u", "t">>},
         x \in NodeTexts}
    \cup {[tag |-> "button", value |-> v, text |-> x] :
              v \in {<<"g", "o", "(", "'", "t", "i", "c", "k", "e", "t", "'", ")">>, <<"g", "o", "(", "'", "T", "i", "c", "k", "e", "t", "'", ")">>, <<"m", "e", "n", "u", "(", ")">>},
              x \in NodeTexts}
    \cup {[tag |-> "p", value |-> << >>, text |-> x] : x \in NodeTexts}

\* driver.page_source: the markup of one element and of the page
Markup(node) ==
    IF node.tag = "a"
    THEN <<"<", "a", " ", "h", "r", "e", "f", "=", "\\", "\"">> \o node.value \o <<"\\", "\"", ">">> \o node.text \o <<"<", "/", "a", ">">>
    ELSE IF node.tag = "button"
    THEN <<"<", "b", "u", "t", "t", "o", "n", " ", "o", "n", "c", "l", "i", "c", "k", "=", "\\", "\"">> \o node.value \o <<"\\", "\"", ">">> \o node.text
         \o <<"<", "/", "b", "u", "t", "t", "o", "n", ">">>
    ELSE <<"<", "p", ">">> \o node.text \o <<"<", "/", "p", ">">>

RECURSIVE PageSource(_)
PageSource(nodes) ==
    IF nodes = << >> THEN << >>
    ELSE Markup(Head(nodes)) \o PageSource(Tail(nodes))

\* the text of the page without its markup
RECURSIVE PageText(_)
PageText(nodes) ==
    IF nodes = << >> THEN << >>
    ELSE Head(nodes).text \o PageText(Tail(nodes))

\* mutant of _is_ticket_page: the indicators are looked for in the text only
IsTicketPageSource_TextOnly(nodes) ==
    \E indicator \in TicketIndicators :
        Contains(Lower(PageText(nodes)), indicator)

\* _is_ticket_page, lines 237-238
IsTicketPageSource(nodes) ==
    \E indicator \in TicketIndicators :
        Contains(Lower(PageSource(nodes)), indicator)

\* _needs_navigation, lines 243-245
NeedsNavigationSource(nodes) ==
    \E i \in DOMAIN nodes :
        \/ /\ nodes[i].tag = "a"
           /\ \/ Contains(nodes[i].value, <<"t", "i", "c", "k", "e", "t">>)
              \/ Contains(nodes[i].value, <<"b", "o", "o", "k">>)
        \/ /\ nodes[i].tag = "button"
           /\ Contains(nodes[i].value, <<"t", "i", "c", "k", "e", "t">>)

\* the branch of book_tickets (web_scraper.py:184-200) on a page that stays
\* as it is between the two tests; raises: page_source or find_elements raises
ClassifySource(nodes, raises) ==
    IF raises THEN "exception"
    ELSE IF IsTicketPageSource(nodes) THEN "book"
    ELSE IF NeedsNavigationSource(nodes) THEN "navigate"
    ELSE "abort"

NoClassifier == [pc |-> "none", nodes |-> << >>, branch |-> "none"]

ClassifyLoaded ==
    /\ classifier.pc = "loaded"
    /\ \E raises \in BOOLEAN :
          classifier' = [classifier EXCEPT
                            !.pc = "classified",
                            !.branch = ClassifySource(classifier.nodes, raises)]
    /\ UNCHANGED <<runVars, form, confirmation, click, dom, bot>>

(***************************************************************************)
(* TicketDemoBot (api_server.py:23-122, 264-267).  One iteration of        *)
(* _demo_booking_process is one step; its outcome is                       *)
(*   "unavailable": _simulate_check_availability returns False             *)
(*   "failed":      _simulate_booking_submission returns False or raises   *)
(*   "booked":      the submission succeeds                                *)
(***************************************************************************)
DEMO_STOCK == 20

NoBot == [pc |-> "none", ticket_count |-> 0, max_attempts |-> 0,
          attempt_count |-> 0, booked_tickets |-> 0, available_tickets |-> 0,
          is_active |-> FALSE]

\* _simulate_check_availability (api_server.py:112-122)
DemoOutcomes(b) ==
    IF b.available_tickets <= 0 THEN {"unavailable"}
    ELSE {"unavailable", "failed", "booked"}

\* _attempt_demo_booking (api_server.py:80-110)
AttemptDemoBooking(b, outcome) ==
    LET tickets_to_book == Min(2, b.ticket_count - b.booked_tickets)
    IN  IF outcome = "booked"
        THEN [b EXCEPT !.attempt_count = @ + 1,
                       !.booked_tickets = @ + tickets_to_book,
                       !.available_tickets = @ - tickets_to_book]
        ELSE [b EXCEPT !.attempt_count = @ + 1]

\* the while condition and the break of lines 62-64
DemoContinues(b) ==
    /\ b.is_active
    /\ b.attempt_count < b.max_attempts
    /\ b.booked_tickets < b.ticket_count

DemoAttempt ==
    /\ bot.pc = "running"
    /\ DemoContinues(bot)
    /\ \E outcome \in DemoOutcomes(bot) :
          bot' = AttemptDemoBooking(bot, outcome)
    /\ UNCHANGED <<runVars, form, confirmation, click, dom, classifier>>

\* the loop is left and the final status is logged (lines 73-78)
DemoEnds ==
    /\ bot.pc = "running"
    /\ ~DemoContinues(bot)
    /\ bot' = [bot EXCEPT !.pc = "ended"]
    /\ UNCHANGED <<runVars, form, confirmation, click, dom, classifier>>

\* stop_booking (api_server.py:264-267), from another thread
DemoStop ==
    /\ bot.pc = "running"
    /\ bot.is_active
    /\ bot' = [bot EXCEPT !.is_active = FALSE]
    /\ UNCHANGED <<runVars, form, confirmation, click, dom, classifier>>

(***************************************************************************)
(* AgentConfig (ticket_booking_agent.py:25-59), the fields the agent       *)
(* reads here.  A string field is empty or holds some text.                *)
(***************************************************************************)
Strings == {"", "text"}
Providers == {"openai", "anthropic", "gemini", "other"}

AgentConfig(counts, attempts) ==
    [target_website_url : Strings, user_email : Strings,
     email_password : Strings, user_name : Strings,
     llm_provider : Providers, openai_api_key : Strings,
     anthropic_api_key : Strings, gemini_api_key : Strings,
     ticket_count : counts, max_attempts : attempts]

\* a configuration with every required field filled in
FilledConfig(ticket_count, max_attempts) ==
    [target_website_url |-> "text", user_email |-> "text",
     email_password |-> "text", user_name |-> "text",
     llm_provider |-> "openai", openai_api_key |-> "text",
     anthropic_api_key |-> "", gemini_api_key |-> "",
     ticket_count |-> ticket_count, max_attempts |-> max_attempts]

NoConfig == FilledConfig(0, 0)

AgentInit ==
    /\ is_running = FALSE
    /\ booking_results = << >>
    /\ total_tickets_booked = 0
    /\ thread = [w \in ScraperIds |-> "none"]
    /\ stop_signal = [w \in ScraperIds |-> FALSE]
    /\ emails = << >>
    /\ start_returned = "none"
    /\ form = NoForm
    /\ confirmation = NoConfirmation
    /\ click = NoClick
    /\ dom = NoDom
    /\ classifier = NoClassifier
    /\ bot = NoBot

(***************************************************************************)
(* Spec: one WebScraper, constructed with any max_attempts, with or        *)
(* without an LLM agent, whose book_tickets is called any number of times. *)
(***************************************************************************)
Init ==
    /\ \E m \in 0..MaxRetries, llm_agent \in BOOLEAN :
          ws = [w \in ScraperIds |->
                  IF w = 1 THEN StartBrowser(NewScraper(m, llm_agent), "ok")
                  ELSE Unborn]
    /\ config = NoConfig
    /\ AgentInit

Next == \E w \in ScraperIds : Call(w) \/ ScraperStep(w)

Spec == Init /\ [][Next]_vars

(***************************************************************************)
(* SpecTerminates: book_tickets called once, on a new WebScraper with a    *)
(* budget of 0 to 3 attempts, for 0, 1, 4, 5 or 9 tickets.  Every browser  *)
(* action returns or times out, so the step the program is at is taken in  *)
(* the end; the page may go on changing meanwhile.                         *)
(***************************************************************************)
CallCounts == {0, 1, 4, 5, 9}
CallBudgets == 0..3

InitTerminates ==
    /\ \E m \in CallBudgets, llm_agent \in BOOLEAN :
          ws = [w \in ScraperIds |->
                  IF w = 1 THEN StartBrowser(NewScraper(m, llm_agent), "ok")
                  ELSE Unborn]
    /\ config = NoConfig
    /\ AgentInit

FirstCall ==
    /\ ws[1].pc = "idle"
    /\ \E n \in CallCounts : Set(1, EnterBookTickets(ws[1], n))
    /\ UNCHANGED agentVars

ProgramStep ==
    \/ Loop(1) \/ Load(1) \/ Classify(1) \/ Navigation(1)
    \/ Navigate(1) \/ Book(1) \/ Delay(1)

NextTerminates == FirstCall \/ ProgramStep \/ PageChanges(1)

SpecTerminates ==
    InitTerminates /\ [][NextTerminates]_vars /\ WF_vars(ProgramStep)

(***************************************************************************)
(* TicketBookingAgent (ticket_booking_agent.py).  thread[w] is             *)
(*   "none":    thread w does not exist                                    *)
(*   "checked": a call of start_booking that will create it has passed the *)
(*              is_running test and not yet set the flag                   *)
(*   "started": start_booking created and started it                       *)
(*   "booking": it is inside scraper.book_tickets (ws[w])                  *)
(*   "done":    _run_booking_process has returned                          *)
(***************************************************************************)
RECURSIVE SumTickets(_)
SumTickets(rs) ==
    IF rs = << >> THEN 0 ELSE rs[1].tickets_booked + SumTickets(Tail(rs))

MAX_TICKET_COUNT == 50

Issue(condition, text) == IF condition THEN <<text>> ELSE << >>

\* mutant of validate_configuration: the user name is not looked at
ValidateConfiguration_NoNameCheck(c) ==
    Issue(c.target_website_url = "", "Target website URL is required")
    \o Issue(c.user_email = "", "User email is required")
    \o Issue(c.email_password = "", "Email password is required")
    \o Issue(\/ c.llm_provider = "openai" /\ c.openai_api_key = ""
             \/ c.llm_provider = "anthropic" /\ c.anthropic_api_key = ""
             \/ c.llm_provider = "gemini" /\ c.gemini_api_key = "",
             "API key is required for selected provider")
    \o Issue(c.ticket_count <= 0 \/ c.ticket_count > MAX_TICKET_COUNT,
             "Ticket count")

\* validate_configuration (ticket_booking_agent.py:176-207): the issue list
ValidateConfiguration(c) ==
    Issue(c.target_website_url = "", "Target website URL is required")
    \o Issue(c.user_email = "", "User email is required")
    \o Issue(c.email_password = "", "Email password is required")
    \o Issue(c.user_name = "", "User name is recommended for booking")
    \o (IF c.llm_provider = "openai" /\ c.openai_api_key = ""
        THEN <<"OpenAI API key is required for selected provider">>
        ELSE IF c.llm_provider = "anthropic" /\ c.anthropic_api_key = ""
        THEN <<"Anthropic API key is required for selected provider">>
        ELSE IF c.llm_provider = "gemini" /\ c.gemini_api_key = ""
        THEN <<"Gemini API key is required for selected provider">>
        ELSE << >>)
    \o (IF c.ticket_count <= 0
        THEN <<"Ticket count must be greater than 0">>
        ELSE IF c.ticket_count > MAX_TICKET_COUNT
        THEN <<"Ticket count should not exceed 50 for practical reasons">>
        ELSE << >>)

\* _initialize_llm_agent (ticket_booking_agent.py:143-164): an agent exists
\* when the selected provider has a key (LLMAgent(...) taken to accept it)
InitializeLLMAgent(c) ==
    \/ c.llm_provider = "openai" /\ c.openai_api_key # ""
    \/ c.llm_provider = "anthropic" /\ c.anthropic_api_key # ""
    \/ c.llm_provider = "gemini" /\ c.gemini_api_key # ""

\* start_booking, "if issues:" (ticket_booking_agent.py:229-234)
ValidConfiguration(c) == ValidateConfiguration(c) = << >>

\* start_booking (ticket_booking_agent.py:218-251), async_mode.  The caller
\* starts a run only when no earlier worker thread is still alive.
StartBooking(w) ==
    /\ thread[w] = "none"
    /\ \A v \in ScraperIds : v < w => thread[v] = "done"
    /\ ValidConfiguration(config)
    /\ ~is_running
    /\ is_running' = TRUE
    /\ booking_results' = << >>
    /\ total_tickets_booked' = 0
    /\ thread' = [thread EXCEPT ![w] = "started"]
    /\ start_returned' = "True"
    /\ UNCHANGED <<ws, config, stop_signal, emails, callVars>>

\* start_booking taken in the two steps another thread can come between:
\* the tests of lines 229-238, then lines 240-249.  No lock is held.
StartCheck(w) ==
    /\ thread[w] = "none"
    /\ \A v \in ScraperIds : v < w => thread[v] # "none"
    /\ ValidConfiguration(config)
    /\ ~is_running
    /\ thread' = [thread EXCEPT ![w] = "checked"]
    /\ UNCHANGED <<ws, is_running, booking_results, total_tickets_booked,
                   config, stop_signal, emails, start_returned, callVars>>

StartCommit(w) ==
    /\ thread[w] = "checked"
    /\ is_running' = TRUE
    /\ booking_results' = << >>
    /\ total_tickets_booked' = 0
    /\ thread' = [thread EXCEPT ![w] = "started"]
    /\ start_returned' = "True"
    /\ UNCHANGED <<ws, config, stop_signal, emails, callVars>>

\* start_booking returning False on a configuration with issues
\* (ticket_booking_agent.py:229-234)
StartRejected ==
    /\ ~ValidConfiguration(config)
    /\ start_returned' = "False"
    /\ UNCHANGED <<ws, is_running, booking_results, total_tickets_booked,
                   thread, config, stop_signal, emails, callVars>>

\* stop_booking (ticket_booking_agent.py:253-260); the join gives up after 10 s
StopBooking ==
    /\ is_running
    /\ is_running' = FALSE
    /\ stop_signal' = [w \in ScraperIds |->
                          stop_signal[w] \/ thread[w] \in {"started", "booking"}]
    /\ UNCHANGED <<ws, booking_results, total_tickets_booked, thread, config,
                   emails, start_returned, callVars>>

\* mutant of the completion email: a confirmation needs every result to succeed
CompletionEmail_AllSucceeded(results) ==
    IF results # << >> /\ \A i \in 1..Len(results) : results[i].success
    THEN "confirmation" ELSE "failure"

\* the completion email of a run (ticket_booking_agent.py:311-319)
CompletionEmail(results) ==
    IF \E i \in 1..Len(results) : results[i].success
    THEN "confirmation" ELSE "failure"

\* _run_booking_process up to the call of book_tickets
\* (ticket_booking_agent.py:282-306): the status email, WebScraper(...) and
\* __enter__.  When start_browser raises, __exit__ is not called and the
\* except and finally clauses run (lines 324-329).
BeginRun(w) ==
    /\ thread[w] = "started"
    /\ \E outcome \in BrowserOutcomes :
        LET scraper == StartBrowser(NewScraper(config.max_attempts,
                                                 InitializeLLMAgent(config)),
                                    outcome)
        IN  IF outcome = "ok"
            THEN /\ ws' = [ws EXCEPT ![w] =
                            EnterBookTickets(scraper, config.ticket_count)]
                 /\ thread' = [thread EXCEPT ![w] = "booking"]
                 /\ emails' = Append(emails, "status")
                 /\ UNCHANGED is_running
            ELSE /\ ws' = [ws EXCEPT ![w] =
                            [Unborn EXCEPT !.browser = scraper.browser]]
                 /\ thread' = [thread EXCEPT ![w] = "done"]
                 /\ emails' = emails \o <<"status", "failure">>
                 /\ is_running' = FALSE
    /\ UNCHANGED <<booking_results, total_tickets_booked, config, stop_signal,
                   start_returned, callVars>>

\* _run_booking_process after book_tickets returned
\* (ticket_booking_agent.py:308-329), with __exit__ (web_scraper.py:81-82)
FinishRun(w) ==
    /\ thread[w] = "booking"
    /\ ws[w].pc = "returned"
    /\ booking_results' = booking_results \o ws[w].results
    /\ total_tickets_booked' = SumTickets(ws[w].results)
    /\ emails' = Append(emails, CompletionEmail(ws[w].results))
    /\ is_running' = FALSE
    /\ thread' = [thread EXCEPT ![w] = "done"]
    /\ ws' = [ws EXCEPT ![w] =
                 [Closed EXCEPT !.browser = CloseBrowser(ws[w]).browser]]
    /\ UNCHANGED <<config, stop_signal, start_returned, callVars>>

(***************************************************************************)
(* SpecAgent: an agent with a valid configuration, whose start_booking and *)
(* stop_booking are called at any time while its workers run.              *)
(***************************************************************************)
InitAgent ==
    /\ ws = [w \in ScraperIds |-> Unborn]
    /\ config \in {FilledConfig(n, m) : n \in 1..MaxTickets, m \in 1..MaxRetries}
    /\ AgentInit

NextAgent ==
    \/ StopBooking
    \/ \E w \in ScraperIds :
          \/ StartBooking(w) \/ BeginRun(w) \/ FinishRun(w)
          \/ ScraperStep(w)

SpecAgent == InitAgent /\ [][NextAgent]_vars

(***************************************************************************)
(* SpecOverlap: start_booking and stop_booking called from any thread at   *)
(* any time, also while a worker is still alive, for 1 ticket and 1        *)
(* attempt.                                                                *)
(***************************************************************************)
InitOverlap ==
    /\ ws = [w \in ScraperIds |-> Unborn]
    /\ config = FilledConfig(1, 1)
    /\ AgentInit

NextOverlap ==
    \/ StopBooking
    \/ \E w \in ScraperIds :
          \/ StartCheck(w) \/ StartCommit(w) \/ BeginRun(w) \/ FinishRun(w)
          \/ ScraperStep(w)

SpecOverlap == InitOverlap /\ [][NextOverlap]_vars

(***************************************************************************)
(* SpecRun: the runs of one agent, one after the other, for 1 or 5 tickets *)
(* and 1 or 2 attempts.                                                    *)
(***************************************************************************)
InitRun ==
    /\ ws = [w \in ScraperIds |-> Unborn]
    /\ config \in {FilledConfig(n, m) : n \in {1, 5}, m \in {1, 2}}
    /\ AgentInit

NextRun ==
    \/ StopBooking
    \/ \E w \in ScraperIds :
          \/ StartBooking(w) \/ BeginRun(w) \/ FinishRun(w)
          \/ ScraperStep(w)

SpecRun == InitRun /\ [][NextRun]_vars

(***************************************************************************)
(* SpecFiller: _fill_booking_form called on a form of at most MaxFields    *)
(* text inputs, with and without an LLM agent.                             *)
(***************************************************************************)
\* no scraper and no agent at work
RunIdle ==
    /\ ws = [w \in ScraperIds |-> Unborn]
    /\ config = NoConfig
    /\ is_running = FALSE
    /\ booking_results = << >>
    /\ total_tickets_booked = 0
    /\ thread = [w \in ScraperIds |-> "none"]
    /\ stop_signal = [w \in ScraperIds |-> FALSE]
    /\ emails = << >>
    /\ start_returned = "none"

InitFiller ==
    /\ RunIdle
    /\ confirmation = NoConfirmation
    /\ click = NoClick
    /\ dom = NoDom
    /\ classifier = NoClassifier
    /\ bot = NoBot
    /\ \E fields \in SUBSET FieldNames, user_info \in UserInfos,
          n \in FormCounts, llm_agent \in BOOLEAN :
          /\ Cardinality(fields) <= MaxFields
          /\ form = [NoForm EXCEPT !.pc = "called", !.llm_agent = llm_agent,
                        !.fields = fields, !.user_info = user_info,
                        !.kinds = [f \in fields |-> "input"],
                        !.ticket_count = n]

NextFiller == Generate \/ Fill

SpecFiller == InitFiller /\ [][NextFiller]_vars

(***************************************************************************)
(* SpecFields: _fill_booking_form called on a form of at most MaxFields    *)
(* fields, each a text input or a select, for one user and 3 tickets.      *)
(***************************************************************************)
InitFields ==
    /\ RunIdle
    /\ confirmation = NoConfirmation
    /\ click = NoClick
    /\ dom = NoDom
    /\ classifier = NoClassifier
    /\ bot = NoBot
    /\ \E fields \in SUBSET FieldNames, llm_agent \in BOOLEAN :
          /\ Cardinality(fields) <= MaxFields
          /\ \E kinds \in [fields -> {"input", "select"}] :
                form = [NoForm EXCEPT
                           !.pc = "called", !.llm_agent = llm_agent,
                           !.fields = fields, !.kinds = kinds,
                           !.user_info = [k \in UserKeys |-> UserValue(k)],
                           !.ticket_count = 3]

NextFields == Generate \/ Fill

SpecFields == InitFields /\ [][NextFields]_vars

(***************************************************************************)
(* SpecExtractor: _extract_confirmation_details called on a page whose     *)
(* text is made of at most MaxParts pieces.                                *)
(***************************************************************************)
InitExtractor ==
    /\ RunIdle
    /\ form = NoForm
    /\ click = NoClick
    /\ dom = NoDom
    /\ classifier = NoClassifier
    /\ bot = NoBot
    /\ \E text \in Texts(MaxParts) :
          confirmation = [NoConfirmation EXCEPT !.pc = "page", !.text = text]

NextExtractor == Extract

SpecExtractor == InitExtractor /\ [][NextExtractor]_vars

(***************************************************************************)
(* SpecClick: _safe_click called on one element.                           *)
(***************************************************************************)
InitClick ==
    /\ RunIdle
    /\ form = NoForm
    /\ confirmation = NoConfirmation
    /\ dom = NoDom
    /\ classifier = NoClassifier
    /\ bot = NoBot
    /\ click = [NoClick EXCEPT !.pc = "scroll"]

NextClick == ScrollIntoView \/ NativeClick \/ ScriptClick \/ BackOff

SpecClick == InitClick /\ [][NextClick]_vars

(***************************************************************************)
(* SpecForms: _extract_form_fields called on a page with no form, one form *)
(* or two, the first of at most MaxElements elements and the second of at  *)
(* most one.                                                               *)
(***************************************************************************)
FormsOf(n) == UNION {[1..k -> Elements] : k \in 0..n}

InitForms ==
    /\ RunIdle
    /\ form = NoForm
    /\ confirmation = NoConfirmation
    /\ click = NoClick
    /\ classifier = NoClassifier
    /\ bot = NoBot
    /\ \E first \in FormsOf(MaxElements), second \in FormsOf(1),
          count \in 0..2 :
          /\ count = 0 => first = << >>
          /\ count < 2 => second = << >>
          /\ dom = [NoDom EXCEPT
                       !.pc = "page",
                       !.forms = IF count = 0 THEN << >>
                                 ELSE IF count = 1 THEN <<first>>
                                 ELSE <<first, second>>]

NextForms == ExtractFields

SpecForms == InitForms /\ [][NextForms]_vars

(***************************************************************************)
(* SpecClassifier: one loaded page of at most MaxElements elements is      *)
(* classified.                                                             *)
(***************************************************************************)
InitClassifier ==
    /\ RunIdle
    /\ form = NoForm
    /\ confirmation = NoConfirmation
    /\ click = NoClick
    /\ dom = NoDom
    /\ bot = NoBot
    /\ \E nodes \in UNION {[1..k -> Nodes] : k \in 0..MaxElements} :
          classifier = [NoClassifier EXCEPT !.pc = "loaded", !.nodes = nodes]

NextClassifier == ClassifyLoaded

SpecClassifier == InitClassifier /\ [][NextClassifier]_vars

(***************************************************************************)
(* SpecDemo: a TicketDemoBot asked for up to MaxTickets tickets in up to   *)
(* MaxRetries attempts, after start_demo_booking.                          *)
(***************************************************************************)
InitDemo ==
    /\ RunIdle
    /\ form = NoForm
    /\ confirmation = NoConfirmation
    /\ click = NoClick
    /\ dom = NoDom
    /\ classifier = NoClassifier
    /\ \E n \in 1..MaxTickets, m \in 0..MaxRetries, stock \in 1..DEMO_STOCK :
          bot = [NoBot EXCEPT !.pc = "running", !.ticket_count = n,
                              !.max_attempts = m, !.available_tickets = stock,
                              !.is_active = TRUE]

NextDemo == DemoAttempt \/ DemoEnds \/ DemoStop

SpecDemo == InitDemo /\ [][NextDemo]_vars

(***************************************************************************)
(* SpecAdvisory: two runs of book_tickets side by side, scrapers 1 and 2,  *)
(* built alike and called alike, that meet the same pages, exceptions and  *)
(* form outcomes step by step while each gets a page analysis of its own.  *)
(***************************************************************************)
\* what the steps at the positions pcs read of the world; the rest is fixed
Inputs(pcs) ==
    [e : IF pcs \cap {"load", "classify", "neednav"} # {}
         THEN MaybeExc ELSE {NoExc},
     p : IF pcs \cap {"load", "navigate"} # {} THEN Pages ELSE {BlankPage},
     env : IF "book" \in pcs THEN BookingEnvs ELSE {NoEnv},
     outcome : IF "navigate" \in pcs THEN NavigationOutcomes ELSE {"nomatch"}]

\* the analyses a scraper at position pc may read
AnalysesAt(s) ==
    IF s.pc = "navigate" THEN Analyses(s.llm_agent) ELSE {"empty"}

\* the next step of book_tickets on scraper record s
Advance(s, in, page_analysis) ==
    CASE s.pc = "loop"     -> LoopTop(s)
      [] s.pc = "load"     -> LoadPage(s, in.e, in.p)
      [] s.pc = "classify" -> ClassifyPage(s, in.e)
      [] s.pc = "neednav"  -> CheckNavigation(s, in.e)
      [] s.pc = "navigate" ->
             NavigateStep(s, NavigationOutcome(page_analysis, in.outcome), in.p)
      [] s.pc = "book"     -> BookStep(s, in.env)
      [] s.pc = "delay"    -> DelayStep(s)
      [] OTHER             -> s

RunBoth ==
    /\ \E w \in {1, 2} : ws[w].pc \notin {"returned", "unborn"}
    /\ \E in \in Inputs({ws[1].pc, ws[2].pc}),
          a1 \in AnalysesAt(ws[1]), a2 \in AnalysesAt(ws[2]) :
          ws' = [w \in ScraperIds |->
                   IF w = 1 THEN Advance(ws[1], in, a1)
                   ELSE IF w = 2 THEN Advance(ws[2], in, a2)
                   ELSE ws[w]]
    /\ UNCHANGED agentVars

PageChangesBoth ==
    /\ \E w \in {1, 2} : ws[w].pc \in {"classify", "neednav"}
    /\ \E p \in Pages \ {ws[1].page} :
          ws' = [w \in ScraperIds |->
                   IF w \in {1, 2} /\ ws[w].pc \in {"classify", "neednav"}
                   THEN [ws[w] EXCEPT !.page = p] ELSE ws[w]]
    /\ UNCHANGED agentVars

InitAdvisory ==
    /\ \E m \in 1..MaxRetries, n \in 1..MaxTickets, llm_agent \in BOOLEAN :
          ws = [w \in ScraperIds |->
                  IF w \in {1, 2}
                  THEN EnterBookTickets(
                           StartBrowser(NewScraper(m, llm_agent), "ok"), n)
                  ELSE Unborn]
    /\ config = NoConfig
    /\ AgentInit

NextAdvisory == RunBoth \/ PageChangesBoth

SpecAdvisory == InitAdvisory /\ [][NextAdvisory]_vars

(***************************************************************************)
(* SpecConfig: an agent built on any configuration, valid or not, with     *)
(* ticket counts on both sides of the two limits and one attempt per run.  *)
(***************************************************************************)
TicketCounts == {-1, 0, 1, MAX_TICKET_COUNT, MAX_TICKET_COUNT + 1}

InitConfig ==
    /\ ws = [w \in ScraperIds |-> Unborn]
    /\ config \in AgentConfig(TicketCounts, {1})
    /\ AgentInit

NextConfig ==
    \/ StartRejected
    \/ StopBooking
    \/ \E w \in ScraperIds :
          \/ StartBooking(w) \/ BeginRun(w) \/ FinishRun(w)
          \/ ScraperStep(w)

SpecConfig == InitConfig /\ [][NextConfig]_vars

(***************************************************************************)
(* Helpers of the claims.                                                  *)
(***************************************************************************)
RECURSIVE SumBooked(_)
SumBooked(rs) ==
    IF rs = << >> THEN 0
    ELSE (IF rs[1].success THEN rs[1].tickets_booked ELSE 0) + SumBooked(Tail(rs))

Last(rs) == rs[Len(rs)]

Live == {w \in ScraperIds : ws[w].pc \notin {"unborn", "closed"}}

(***************************************************************************)
(* C1: in every book_tickets call, the tickets_booked of the successful    *)
(* results sum to at most the ticket_count requested.                      *)
(***************************************************************************)
C1_BookedAtMostRequested ==
    \A w \in Live : SumBooked(ws[w].results) <= ws[w].ticket_count

\* two successful attempts (4 tickets, then 1) meet a request of 5
C1_Witness ==
    \E w \in Live :
        /\ ws[w].pc = "returned"
        /\ ws[w].ticket_count > PER_ORDER_CAP
        /\ Len(ws[w].results) >= 2
        /\ SumBooked(ws[w].results) = ws[w].ticket_count

(***************************************************************************)
(* C2: a book_tickets call returns at most max_attempts results: an        *)
(* iteration appends at most one result, so the results never outnumber    *)
(* the attempts the call has counted.                                      *)
(***************************************************************************)
C2_ResultsAtMostMaxAttempts ==
    \A w \in Live :
        /\ Len(ws[w].results) <= ws[w].max_retries
        /\ Len(ws[w].results) <= ws[w].booking_attempts - ws[w].attempts_at_call
        /\ Len(ws[w].results) <= ws[w].results_at_top + 1

\* a returned run with one result per attempt of the budget, one of them from
\* the except clause and one from a booking attempt
C2_Witness ==
    \E w \in Live :
        /\ ws[w].pc = "returned"
        /\ ws[w].max_retries >= 2
        /\ Len(ws[w].results) = ws[w].max_retries
        /\ \E i, j \in 1..Len(ws[w].results) :
              /\ ws[w].results[i].error_message \in {<<m>> : m \in Messages}
              /\ ws[w].results[j].success

(***************************************************************************)
(* C3: after every successful attempt inside a book_tickets call,          *)
(* remaining_tickets + successful_bookings equals the ticket_count passed  *)
(* to that call.                                                           *)
(***************************************************************************)
C3_RemainingPlusSuccessful ==
    \A w \in Live :
        (ws[w].branch = "book" /\ ws[w].pc = "delay" /\ Last(ws[w].results).success)
            => ws[w].remaining_tickets + ws[w].successful_bookings
                  = ws[w].ticket_count

(***************************************************************************)
(* C4: booking_attempts is at most max_attempts in every state, it never   *)
(* decreases, and an iteration starts only when booking_attempts is below  *)
(* max_attempts.                                                           *)
(***************************************************************************)
C4_AttemptsBounded ==
    /\ [](\A w \in Live : ws[w].booking_attempts <= ws[w].max_retries)
    /\ [][\A w \in Live :
            /\ ws'[w].booking_attempts >= ws[w].booking_attempts
            /\ ws'[w].booking_attempts # ws[w].booking_attempts
                  => /\ ws[w].booking_attempts < ws[w].max_retries
                     /\ ws'[w].booking_attempts = ws[w].booking_attempts + 1
                     /\ ws[w].pc = "loop" /\ ws'[w].pc = "load"
            /\ (ws[w].pc = "loop" /\ ws'[w].pc = "load")
                  => ws[w].booking_attempts < ws[w].max_retries]_vars

\* the budget is used up while tickets are still missing
C4_Witness ==
    \E w \in Live :
        /\ ws[w].pc = "returned"
        /\ ws[w].max_retries >= 2
        /\ ws[w].booking_attempts = ws[w].max_retries
        /\ ws[w].remaining_tickets > 0

(***************************************************************************)
(* C5: on a bookable page the iteration calls _attempt_booking once, for   *)
(* min(remaining_tickets, 4) tickets, and appends its result; a success    *)
(* books that quantity and lowers remaining_tickets by it, a failure       *)
(* leaves remaining_tickets as it was.                                     *)
(***************************************************************************)
C5_BookableIteration ==
    [][\A w \in Live :
        (ws[w].pc = "book" /\ ws'[w] # ws[w]) =>
            LET s == ws[w]
                t == ws'[w]
                r == Last(t.results)
                q == IF s.remaining_tickets <= 4 THEN s.remaining_tickets ELSE 4
            IN  /\ t.results = Append(s.results, r)
                /\ t.quantity = q
                /\ r.success => /\ r.tickets_booked = q
                                /\ t.remaining_tickets = s.remaining_tickets - q
                /\ ~r.success => t.remaining_tickets = s.remaining_tickets]_vars

\* a success for the capped quantity 4 out of 5, one ticket left
C5_Witness ==
    \E w \in Live :
        /\ ws[w].branch = "book" /\ ws[w].pc = "delay"
        /\ Last(ws[w].results).success
        /\ Last(ws[w].results).tickets_booked = 4
        /\ ws[w].remaining_tickets = 1

(***************************************************************************)
(* C6: an exception raised inside a loop iteration (page load, wait,       *)
(* classification, navigation, booking) ends the iteration with exactly    *)
(* one appended result, which is failed, books 0 tickets and carries the   *)
(* exception's message.                                                    *)
(***************************************************************************)
C6_ExceptionBecomesResult ==
    \A w \in Live :
        (ws[w].pc = "delay" /\ ws[w].raised # NoExc) =>
            /\ Len(ws[w].results) = ws[w].results_at_top + 1
            /\ ~Last(ws[w].results).success
            /\ Last(ws[w].results).tickets_booked = 0
            /\ Last(Last(ws[w].results).error_message) = ws[w].raised

(***************************************************************************)
(* C7: when the page is neither bookable nor navigation-needed the loop    *)
(* is left at once: book_tickets returns the results collected so far, no  *)
(* delay and no further iteration follows, whatever tickets and attempts   *)
(* are left.                                                               *)
(***************************************************************************)
C7_UnclassifiedAborts ==
    /\ [](\A w \in Live : ws[w].aborted => ws[w].pc = "returned")
    /\ [][\A w \in Live :
            (/\ ws[w].pc = "neednav" /\ ~ws[w].page.navlinks
             /\ ws'[w].pc # "neednav" /\ ws'[w].raised = NoExc) =>
                /\ ws'[w].pc = "returned"
                /\ ws'[w].results = ws[w].results
                /\ ws'[w].loads = ws[w].loads
                /\ ws'[w].sleeps = ws[w].sleeps
                /\ ws'[w].booking_attempts = ws[w].booking_attempts]_vars

\* aborted in the second iteration with tickets and attempts left
C7_Witness ==
    \E w \in Live :
        /\ ws[w].aborted
        /\ ws[w].remaining_tickets > 0
        /\ ws[w].booking_attempts < ws[w].max_retries
        /\ Len(ws[w].results) >= 1

(***************************************************************************)
(* C8: when the page needs navigation and the navigation step finds no     *)
(* matching link or button, the loop is left and no further attempt is     *)
(* made.                                                                   *)
(***************************************************************************)
C8_NoNavigationPathAborts ==
    \A w \in Live : ws[w].branch = "nav_nomatch" => ws[w].pc = "returned"

(***************************************************************************)
(* C9: a book_tickets call with no ticket to book returns an empty result  *)
(* sequence without a page load, without counting an attempt and without   *)
(* a delay.                                                                *)
(***************************************************************************)
C9_NothingToBook ==
    \A w \in Live :
        (ws[w].pc \notin {"idle"} /\ ws[w].ticket_count <= 0) =>
            /\ ws[w].pc \in {"loop", "returned"}
            /\ ws[w].results = << >>
            /\ ws[w].loads = 0
            /\ ws[w].sleeps = 0
            /\ ws[w].booking_attempts = ws[w].attempts_at_call

\* returned from a call for 0 tickets with attempts still in the budget
C9_Witness ==
    \E w \in Live :
        /\ ws[w].pc = "returned"
        /\ ws[w].ticket_count = 0
        /\ ws[w].booking_attempts < ws[w].max_retries

(***************************************************************************)
(* C10: once stop_booking has flipped is_running during a run, the loop    *)
(* of book_tickets sees it at the top of its next iteration and exits: no  *)
(* new iteration, and so no new page load, starts after the stop.  Stated  *)
(* for a run that has loaded a page already.                               *)
(***************************************************************************)
C10_StopEndsLoop ==
    [][\A w \in Live :
        (stop_signal[w] /\ ws[w].pc = "loop" /\ ws[w].loads >= 1)
            => ws'[w].pc # "load"]_vars

(***************************************************************************)
(* C11: browser acquisition and release are paired on every exit path of   *)
(* a run: when _run_booking_process has returned (normally, or by an       *)
(* exception during browser start-up after the driver process was          *)
(* created), every driver process that was created has been quit; and a    *)
(* page is loaded only with a browser running.                             *)
(***************************************************************************)
C11_BrowserReleased ==
    \A w \in ScraperIds :
        /\ thread[w] = "done" => ws[w].browser # "running"
        /\ ws[w].loads > 0 => ws[w].driver /\ ws[w].browser = "running"

(***************************************************************************)
(* C12: configuration errors fail fast.  On a configuration with a missing *)
(* URL, email, password, user name or key of the selected provider, or a   *)
(* ticket_count outside 1..50, start_booking never returns True and the    *)
(* agent stays as constructed: is_running False, no thread, no browser, no *)
(* email, booking_results untouched; so a run starts only on a             *)
(* configuration without issues.                                           *)
(***************************************************************************)
C12_HasIssue ==
    \/ config.target_website_url = ""
    \/ config.user_email = ""
    \/ config.email_password = ""
    \/ config.user_name = ""
    \/ config.llm_provider = "openai" /\ config.openai_api_key = ""
    \/ config.llm_provider = "anthropic" /\ config.anthropic_api_key = ""
    \/ config.llm_provider = "gemini" /\ config.gemini_api_key = ""
    \/ config.ticket_count < 1
    \/ config.ticket_count > 50

C12_ConfigErrorsFailFast ==
    C12_HasIssue =>
        /\ start_returned \in {"none", "False"}
        /\ ~is_running
        /\ \A w \in ScraperIds : thread[w] = "none" /\ ws[w] = Unborn
        /\ emails = << >>
        /\ booking_results = << >>
        /\ total_tickets_booked = 0

C12_Witness ==
    /\ start_returned = "False"
    /\ config.user_name = ""
    /\ config.ticket_count = 1

(***************************************************************************)
(* C13: with no LLM agent, fields full_name, email_addr and qty, user info *)
(* {name: "Jane Doe", email: "jane@x.com"} and ticket count 3, the         *)
(* fallback filler produces Jane Doe, jane@x.com and "3".                  *)
(***************************************************************************)
C13_Case ==
    /\ form.pc \in {"generated", "filled"}
    /\ ~form.llm_agent
    /\ form.fields = {<<"f", "u", "l", "l", "_", "n", "a", "m", "e">>, <<"e", "m", "a", "i", "l", "_", "a", "d", "d", "r">>, <<"q", "t", "y">>}
    /\ form.user_info = [k \in {"name", "email"} |-> UserValue(k)]
    /\ form.ticket_count = 3

C13_FallbackExample ==
    C13_Case =>
        /\ form.generated.data[<<"f", "u", "l", "l", "_", "n", "a", "m", "e">>] = <<"Jane Doe">>
        /\ form.generated.data[<<"e", "m", "a", "i", "l", "_", "a", "d", "d", "r">>] = <<"jane@x.com">>
        /\ form.generated.data[<<"q", "t", "y">>] = <<"3">>

\* C13 as the code has it: qty holds none of quantity, ticket, count, so the
\* fallback filler gives it the empty string.
C13_FallbackExampleAmended ==
    C13_Case =>
        /\ form.generated.data[<<"f", "u", "l", "l", "_", "n", "a", "m", "e">>] = <<"Jane Doe">>
        /\ form.generated.data[<<"e", "m", "a", "i", "l", "_", "a", "d", "d", "r">>] = <<"jane@x.com">>
        /\ form.generated.data[<<"q", "t", "y">>] = << >>

C13_Witness ==
    /\ C13_Case
    /\ form.pc = "filled"
    /\ DOMAIN form.filled = form.fields

(***************************************************************************)
(* C14: when the LLM agent's form-data query fails or its response is      *)
(* malformed, every field is filled with the value the keyword heuristic   *)
(* of WebScraper._fallback_form_data gives for its name.                   *)
(***************************************************************************)
C14_FailedQueryUsesHeuristic ==
    (form.pc = "filled" /\ form.response \in {"error", "malformed"}) =>
        \A n \in DOMAIN form.filled :
            form.filled[n] =
                FallbackFormData(form.fields, form.user_info,
                                 form.ticket_count)[n]

\* scraper w has just made a booking attempt
Attempted(w) == ws[w].pc = "delay" /\ ws[w].branch = "book"

(***************************************************************************)
(* C15: when no element matches any CAPTCHA selector, _handle_captcha      *)
(* returns True (the attempt goes on to the submission) without a          *)
(* screenshot and without a call of the LLM, with or without an LLM agent. *)
(***************************************************************************)
C15_NoCaptchaNoCost ==
    \A w \in Live :
        (Attempted(w) /\ "handle_captcha" \in ws[w].steps
           /\ ws[w].env.captcha = "absent") =>
            /\ "submit" \in ws[w].steps
            /\ ws[w].steps \cap {"captcha_found", "screenshot", "solve_captcha",
                                 "captcha_entered"} = {}

C15_Witness ==
    \E w \in Live :
        /\ Attempted(w) /\ "handle_captcha" \in ws[w].steps
        /\ ws[w].env.captcha = "absent"
        /\ ws[w].llm_agent

(***************************************************************************)
(* C16: when a CAPTCHA is present and stays unsolved (no LLM agent, no     *)
(* solution from the solver, or an exception while handling it), the       *)
(* submission is never attempted and the attempt yields the failed result  *)
(* "CAPTCHA solving failed" with tickets_booked = 0.                       *)
(***************************************************************************)
C16_Unsolved(w) ==
    /\ Attempted(w) /\ "handle_captcha" \in ws[w].steps
    /\ \/ ws[w].env.captcha = "error"
       \/ /\ ws[w].env.captcha = "present"
          /\ \/ ~ws[w].llm_agent
             \/ ws[w].env.solving \in {"no_solution", "screenshot_raises",
                                       "input_raises"}

C16_UnsolvedCaptchaBlocks ==
    \A w \in Live :
        C16_Unsolved(w) =>
            /\ ws[w].steps \cap {"submit", "safe_click", "verify",
                                 "confirmation"} = {}
            /\ ws[w].location # "submitted"
            /\ Last(ws[w].results) =
                   BookingResult(FALSE, 0, <<"CAPTCHA solving failed">>)

C16_Witness ==
    \E w \in Live :
        /\ C16_Unsolved(w)
        /\ ws[w].env.captcha = "present"
        /\ ws[w].llm_agent
        /\ ws[w].env.solving = "no_solution"

(***************************************************************************)
(* C17: a submission whose resulting page shows no success keyword is a    *)
(* failure even when the click went through: the result has success False  *)
(* and tickets_booked 0, remaining_tickets is not decreased, and the       *)
(* confirmation is not extracted.                                          *)
(***************************************************************************)
C17_NoKeywordIsFailure ==
    [][\A w \in ScraperIds :
          (ws[w].pc = "book" /\ ws'[w].pc = "delay"
             /\ "verify" \in ws'[w].steps /\ ~ws'[w].env.keywords) =>
              /\ Last(ws'[w].results) =
                     BookingResult(FALSE, 0, <<"Form submission failed">>)
              /\ ws'[w].remaining_tickets = ws[w].remaining_tickets
              /\ ws'[w].successful_bookings = ws[w].successful_bookings
              /\ "confirmation" \notin ws'[w].steps]_vars

C17_Witness ==
    \E w \in Live :
        /\ Attempted(w)
        /\ "verify" \in ws[w].steps
        /\ ws[w].env.submit = "clicked"
        /\ ~ws[w].env.keywords

(***************************************************************************)
(* C18: the bookable check comes first and the navigation check is made    *)
(* only when it fails: a page that is bookable and also shows navigation   *)
(* links goes to the booking branch, never to the navigation branch.       *)
(***************************************************************************)
C18_BookableFirst ==
    [][\A w \in ScraperIds :
          /\ (ws[w].pc = "classify" /\ ws'[w].pc # "classify"
                /\ IsTicketPage(ws[w].page) /\ NeedsNavigation(ws[w].page)) =>
                 \/ ws'[w].pc = "book"
                 \/ ws'[w].pc = "delay" /\ ws'[w].branch = "exception"
          /\ (ws'[w].pc = "neednav" /\ ws[w].pc # "neednav") =>
                 ws[w].pc = "classify" /\ ~IsTicketPage(ws[w].page)
          /\ (ws'[w].pc = "navigate" /\ ws[w].pc # "navigate") =>
                 ws[w].pc = "neednav"]_vars

C18_Witness ==
    \E w \in Live :
        /\ ws[w].pc = "book"
        /\ IsTicketPage(ws[w].page) /\ NeedsNavigation(ws[w].page)

(***************************************************************************)
(* C19: the verdicts of the classifier depend on the page content alone    *)
(* (the same content gets the same verdict at every attempt) and           *)
(* classifying changes neither the page nor the state of the run.          *)
(***************************************************************************)
C19_ClassificationIsPure ==
    [][\A w \in ScraperIds :
          /\ (ws[w].pc = "classify" /\ ws'[w].pc \in {"book", "neednav"}) =>
                 /\ ws'[w].pc = "book" <=> IsTicketPage(ws[w].page)
                 /\ ws'[w] = [ws[w] EXCEPT !.pc = ws'[w].pc]
          /\ (ws[w].pc = "neednav" /\ ws'[w].pc \in {"navigate", "returned"}) =>
                 /\ ws'[w].pc = "navigate" <=> NeedsNavigation(ws[w].page)
                 /\ ws'[w].page = ws[w].page
                 /\ ws'[w].location = ws[w].location
                 /\ ws'[w].results = ws[w].results
                 /\ ws'[w].remaining_tickets = ws[w].remaining_tickets
                 /\ ws'[w].booking_attempts = ws[w].booking_attempts]_vars

\* the same content classified at a second attempt, with the same verdict
C19_Witness ==
    \E w \in Live :
        /\ ws[w].pc = "book" /\ ws[w].loads = 2
        /\ Len(ws[w].results) = 1
        /\ ws[w].page = [keywords |-> TRUE, navlinks |-> FALSE]

(***************************************************************************)
(* C20: every iteration starts by loading the original website_url: the    *)
(* page that is classified, navigated from or booked on is always the one  *)
(* loaded from website_url, never a page an earlier navigation or          *)
(* submission led to.                                                      *)
(***************************************************************************)
C20_AlwaysFromEntry ==
    /\ [](\A w \in Live :
            ws[w].pc \in {"classify", "neednav", "navigate", "book"} =>
                ws[w].location = "entry")
    /\ [][\A w \in ScraperIds :
            (ws[w].pc = "loop" /\ ws'[w].pc \notin {"loop", "returned", "closed"}) =>
                ws'[w].pc = "load" /\ ws'[w].location = ws[w].location]_vars

C20_Witness ==
    \E w \in Live :
        /\ ws[w].pc = "classify"
        /\ ws[w].moved
        /\ ws[w].location = "entry"

(***************************************************************************)
(* C21: for the page text "Your order number: AB12345 Total: $45.50" the   *)
(* confirmation extractor returns number = "AB12345" and total_cost = 45.5 *)
(***************************************************************************)
C21_Text == <<"Y", "o", "u", "r", " ", "o", "r", "d", "e", "r", " ", "n", "u", "m", "b", "e", "r", ":", " ", "A", "B", "1", "2", "3", "4", "5", " ", "T", "o", "t", "a", "l", ":", " ", "$", "4", "5", ".", "5", "0">>

BranchKind(branch) ==
    IF branch \in {"nav_ok", "nav_nomatch", "nav_error"} THEN "navigate"
    ELSE branch

C22_AnalysisIsAdvisory ==
    /\ ws[1].pc = ws[2].pc
    /\ BranchKind(ws[1].branch) = BranchKind(ws[2].branch)
    /\ ws[1].results = ws[2].results
    /\ ws[1].remaining_tickets = ws[2].remaining_tickets
    /\ ws[1].booking_attempts = ws[2].booking_attempts

\* a malformed analysis in one run and a clicked link in the other
C22_Witness ==
    /\ ws[1].pc = "returned" /\ ws[2].pc = "returned"
    /\ ws[1].loads >= 2
    /\ ws[1].moved /\ ~ws[2].moved
    /\ ws[1].results # << >>

(***************************************************************************)
(* C23: session state is per run.  Every call of book_tickets starts with  *)
(* an attempt count of its own (a second call on the same WebScraper has   *)
(* the whole max_attempts budget) and its tally of successful bookings     *)
(* holds the bookings of that call only.                                   *)
(***************************************************************************)
C23_SessionStatePerRun ==
    \A w \in Live :
        ws[w].pc # "idle" =>
            /\ ws[w].attempts_at_call = 0
            /\ ws[w].successful_bookings = SumBooked(ws[w].results)

(***************************************************************************)
(* C24: every BookingResult is well formed: a failed one has               *)
(* tickets_booked = 0 and an error message, a successful one has no error  *)
(* message and 1 to 4 tickets; and a result in the results list of a call  *)
(* is never changed afterwards.                                            *)
(***************************************************************************)
WellFormed(result) ==
    IF result.success
    THEN result.error_message = << >> /\ result.tickets_booked \in 1..4
    ELSE result.error_message # << >> /\ result.tickets_booked = 0

C24_ResultsWellFormed ==
    /\ [](\A w \in Live : \A i \in 1..Len(ws[w].results) :
              WellFormed(ws[w].results[i]))
    /\ [][\A w \in ScraperIds :
            (ws[w].pc \notin {"idle", "returned", "unborn", "closed"}
               /\ ws'[w].pc \notin {"unborn", "closed"}) =>
                /\ Len(ws'[w].results) >= Len(ws[w].results)
                /\ SubSeq(ws'[w].results, 1, Len(ws[w].results))
                       = ws[w].results]_vars

C24_Witness ==
    \E w \in Live :
        /\ Len(ws[w].results) >= 3
        /\ \E i, j \in 1..(Len(ws[w].results) - 1) :
              /\ ws[w].results[i].success
              /\ ws[w].results[i].tickets_booked = 4
              /\ ~ws[w].results[j].success

(***************************************************************************)
(* C25: within one booking attempt the steps come in the order form        *)
(* extraction, form fill, CAPTCHA handling, submit click, verification,    *)
(* confirmation extraction, and a step runs only when every earlier one    *)
(* ran and did not fail the attempt: no fields stops before the fill, an   *)
(* unsolved CAPTCHA before the submission, a failed verification before    *)
(* the confirmation extraction.                                            *)
(***************************************************************************)
StepOrder ==
    <<"extract", "fill", "handle_captcha", "submit", "safe_click", "verify",
      "confirmation">>

C25_StepOrder ==
    \A w \in Live :
        Attempted(w) =>
            /\ \E k \in 0..Len(StepOrder) : ws[w].trace = SubSeq(StepOrder, 1, k)
            /\ ~ws[w].env.fields => Len(ws[w].trace) <= 1
            /\ C16_Unsolved(w) => Len(ws[w].trace) = 3
            /\ ("verify" \in ws[w].steps /\ ~ws[w].env.keywords)
                  => Len(ws[w].trace) = 6
            /\ Len(ws[w].trace) = 7 <=> Last(ws[w].results).success

C25_Witness ==
    \E w \in Live :
        /\ Attempted(w)
        /\ ws[w].trace = StepOrder
        /\ ws[w].env.captcha = "present"

(***************************************************************************)
(* C26: the resilient click makes at most 3 attempts on the element; the   *)
(* script click is tried only after a native click that was intercepted or *)
(* not interactable, the back-off only after a script click that failed    *)
(* too, and the third failure returns False; a stale-element error is the  *)
(* last thing that happens: _safe_click returns False at once and does     *)
(* nothing more with the element.                                          *)
(***************************************************************************)
ClickEvents(op) == {i \in DOMAIN click.events : click.events[i][1] = op}

C26_ResilientClick ==
    LET e == click.events
        failed == {i \in ClickEvents("script_click") : e[i][2] # "ok"}
    IN  /\ Cardinality(ClickEvents("click")) <= 3
        /\ Cardinality(ClickEvents("script_click")) <= 3
        /\ \A i \in ClickEvents("script_click") :
              i > 1 /\ e[i-1] \in {<<"click", "intercepted">>,
                                   <<"click", "not_interactable">>}
        /\ \A i \in ClickEvents("sleep") : i > 1 /\ (i - 1) \in failed
        /\ Cardinality(failed) = 3 => click.result = "False"
        /\ \A i \in DOMAIN e :
              e[i][2] = "stale" => i = Len(e) /\ click.result = "False"

(***************************************************************************)
(* C27: filling is fault tolerant field by field.  Every field of the form *)
(* is attempted whatever happened to the others; a select is set by value  *)
(* first and by visible text only when that failed; a field is in the      *)
(* returned mapping, with the value it was given, exactly when its element *)
(* took the value, so a failing field is left out and nothing else is.     *)
(***************************************************************************)
Accepted(n) ==
    /\ form.generated.dict
    /\ form.elements[n] \in {"writable", "has_value", "has_text"}

C27_FieldFaultTolerance ==
    form.pc = "filled" =>
        /\ DOMAIN form.tried = form.fields
        /\ \A n \in form.fields : form.tried[n] # << >>
        /\ \A n \in form.fields :
              (form.kinds[n] = "select" /\ form.generated.dict) =>
                  LET calls == Tail(form.tried[n])
                  IN  /\ Len(calls) \in {1, 2}
                      /\ calls[1] = "select_by_value"
                      /\ Len(calls) = 2 =>
                            /\ calls[2] = "select_by_visible_text"
                            /\ form.elements[n] # "has_value"
        /\ DOMAIN form.filled = {n \in form.fields : Accepted(n)}
        /\ \A n \in DOMAIN form.filled :
              form.filled[n] = Get(form.generated.data, n, << >>)

C27_Witness ==
    /\ form.pc = "filled"
    /\ \E a, b, c \in form.fields :
          /\ form.kinds[a] = "select" /\ form.elements[a] = "has_neither"
          /\ a \notin DOMAIN form.filled
          /\ form.kinds[b] = "select" /\ form.elements[b] = "has_text"
          /\ b \in DOMAIN form.filled
          /\ form.kinds[c] = "input" /\ form.elements[c] = "broken"
          /\ c \notin DOMAIN form.filled

(***************************************************************************)
(* C28: the random delay is applied only between two iterations: a call of *)
(* book_tickets that has returned has slept fewer times than it made       *)
(* iterations, whether it ended with no ticket remaining, by the break, or *)
(* with the attempt budget exhausted; no delay follows its last iteration. *)
(***************************************************************************)
C28_DelayOnlyBetweenIterations ==
    \A w \in Live :
        ws[w].pc = "returned" =>
            \/ ws[w].sleeps = 0
            \/ ws[w].sleeps < ws[w].booking_attempts - ws[w].attempts_at_call

(***************************************************************************)
(* C29: the Form Extractor returns exactly the fillable fields of the      *)
(* first form.  Every returned field is an element of the first form that  *)
(* has a name or an id and is not an input of type submit, button or       *)
(* hidden, filed under its name, or its id when it has no name; and every  *)
(* such element of the first form is returned, as the field of that name.  *)
(***************************************************************************)
Fillable(e) ==
    /\ e.name # "" \/ e.id # ""
    /\ e.tag = "input" => e.type \notin {"submit", "button", "hidden"}

Under(e) == IF e.name # "" THEN e.name ELSE e.id

C29_FormExtractor ==
    dom.pc = "extracted" =>
        /\ \A n \in DOMAIN dom.fields :
              LET at == dom.fields[n].element
              IN  /\ at[1] = 1
                  /\ at[2] \in DOMAIN dom.forms[1]
                  /\ Fillable(dom.forms[1][at[2]])
                  /\ Under(dom.forms[1][at[2]]) = n
        /\ dom.forms # << >> =>
              \A i \in DOMAIN dom.forms[1] :
                  Fillable(dom.forms[1][i]) =>
                      /\ Under(dom.forms[1][i]) \in DOMAIN dom.fields
                      /\ dom.fields[Under(dom.forms[1][i])].element = <<1, i>>

(***************************************************************************)
(* C30: the confirmation patterns are tried in the order confirmation,     *)
(* order, booking and the cost patterns in the order total, amount; the    *)
(* first pattern of a list that matches the page text gives the value,     *)
(* whatever the later ones would match.  When no pattern of a list matches *)
(* its key is absent from the details, and the BookingResult then carries  *)
(* the confirmation number "" and the total cost 0.                        *)
(***************************************************************************)
Matching(patterns) ==
    {i \in DOMAIN patterns : Search(confirmation.text, patterns[i]).found}

FirstOf(S) == CHOOSE i \in S : \A j \in S : i <= j

C30_FirstPatternDecides ==
    confirmation.pc = "extracted" =>
        LET details == confirmation.details
            conf == Matching(ConfPatterns)
            cost == Matching(CostPatterns)
        IN  /\ conf # {} =>
                  /\ "number" \in DOMAIN details
                  /\ details["number"] =
                         Search(confirmation.text,
                                ConfPatterns[FirstOf(conf)]).group
            /\ conf = {} =>
                  /\ "number" \notin DOMAIN details
                  /\ ConfirmationNumber(details) = << >>
            /\ cost # {} =>
                  /\ "total_cost" \in DOMAIN details
                  /\ details["total_cost"] =
                         Float(Search(confirmation.text,
                                      CostPatterns[FirstOf(cost)]).group)
            /\ cost = {} =>
                  /\ "total_cost" \notin DOMAIN details
                  /\ TotalCost(details) = [whole |-> 0, frac |-> << >>]

\* the order and the confirmation pattern match different numbers and no
\* cost pattern matches
C30_Witness ==
    /\ confirmation.pc = "extracted"
    /\ {1, 2} \subseteq Matching(ConfPatterns)
    /\ Search(confirmation.text, ConfPatterns[2]).group = <<"A", "B", "1", "2", "3", "4", "5">>
    /\ confirmation.details["number"] = <<"C", "9", "9">>
    /\ Matching(CostPatterns) = {}
    /\ TotalCost(confirmation.details) = [whole |-> 0, frac |-> << >>]

(***************************************************************************)
(* C31: every iteration of the loop leaves exactly one BookingResult: when *)
(* book_tickets has returned, the results it returns are as many as the    *)
(* iterations it made, so that the length of the result list counts the    *)
(* attempts.                                                               *)
(***************************************************************************)
C31_OneResultPerAttempt ==
    \A w \in Live :
        ws[w].pc = "returned" =>
            Len(ws[w].results) = ws[w].booking_attempts - ws[w].attempts_at_call

(***************************************************************************)
(* C32: at most one booking run is active per agent: under every           *)
(* interleaving of start_booking, stop_booking and the workers, no two     *)
(* worker threads are inside _run_booking_process at the same time.        *)
(***************************************************************************)
Running == {w \in ScraperIds : thread[w] \in {"started", "booking"}}

C32_OneRunAtATime == Cardinality(Running) <= 1

(***************************************************************************)
(* C33: is_running is true exactly while a booking worker is executing: it *)
(* is true from the moment start_booking has started the worker until      *)
(* _run_booking_process has returned, and false at every other time.       *)
(***************************************************************************)
C33_RunningFlagTracksWorker ==
    is_running <=> \E w \in ScraperIds : thread[w] \in {"started", "booking"}

(***************************************************************************)
(* C34: every run of _run_booking_process sends exactly one completion     *)
(* notification.  The step in which a worker ends its run hands one        *)
(* notification to the email sender, a confirmation when at least one      *)
(* result book_tickets returned has success = TRUE and a failure           *)
(* notification otherwise (no result, failed results only, or the browser  *)
(* did not start); a run that has not ended has sent none.                 *)
(***************************************************************************)
Completions(sent) ==
    {i \in DOMAIN sent : sent[i] \in {"confirmation", "failure"}}

C34_OneCompletionEmail ==
    /\ [](Cardinality(Completions(emails))
              = Cardinality({w \in ScraperIds : thread[w] = "done"}))
    /\ [][\A w \in ScraperIds :
             (thread[w] # "done" /\ thread'[w] = "done") =>
                 LET sent == SubSeq(emails', Len(emails) + 1, Len(emails'))
                     booked == /\ thread[w] = "booking"
                               /\ \E i \in 1..Len(ws[w].results) :
                                     ws[w].results[i].success
                 IN  /\ Cardinality(Completions(sent)) = 1
                     /\ booked => \E i \in DOMAIN sent : sent[i] = "confirmation"
                     /\ ~booked => \E i \in DOMAIN sent : sent[i] = "failure"]_vars

\* a run that ended with a failed and a successful result and a confirmation
C34_Witness ==
    /\ \E w \in ScraperIds : thread[w] = "done"
    /\ emails # << >> /\ Last(emails) = "confirmation"
    /\ \E i, j \in 1..Len(booking_results) :
          booking_results[i].success /\ ~booking_results[j].success

(***************************************************************************)
(* C35: a BookingResult with success = TRUE comes only from an attempt in  *)
(* which a submit control was found and the click on it went through       *)
(* (_safe_click returned True); an attempt whose click failed is reported  *)
(* as failed whatever the page shows afterwards.                           *)
(***************************************************************************)
C35_SuccessNeedsClick ==
    \A w \in Live :
        (Attempted(w) /\ Last(ws[w].results).success) =>
            ws[w].env.submit = "clicked"

(***************************************************************************)
(* C36: on a page that does not change between the two tests, needing      *)
(* navigation implies being bookable: an element that matches one of the   *)
(* navigation selectors puts 'ticket' or 'book' into the page source, so   *)
(* the classification never takes the navigation branch.                   *)
(***************************************************************************)
C36_NavigationImpliesBookable ==
    classifier.pc = "classified" =>
        /\ NeedsNavigationSource(classifier.nodes) =>
               IsTicketPageSource(classifier.nodes)
        /\ classifier.branch # "navigate"

\* a page classified as bookable only because of its navigation link
C36_Witness ==
    /\ classifier.pc = "classified"
    /\ classifier.branch = "book"
    /\ NeedsNavigationSource(classifier.nodes)
    /\ ~IsTicketPageSource_TextOnly(classifier.nodes)

(***************************************************************************)
(* C37: book_tickets terminates.  A call makes at most max_attempts        *)
(* iterations; it is inside an iteration only with tickets remaining, and  *)
(* it has returned only with the quota met, the budget exhausted or the    *)
(* run aborted.  As stated, a call all of whose iterations booked returns  *)
(* after ceil(ticket_count / 4) iterations with remaining_tickets = 0.     *)
(* Amended: that holds when max_attempts is at least ceil(ticket_count /   *)
(* 4); with a smaller budget the call returns after max_attempts           *)
(* iterations with tickets remaining.  A call that has started returns.    *)
(***************************************************************************)
Iterations(s) == s.booking_attempts - s.attempts_at_call

AllBooked(s) ==
    /\ Len(s.results) = Iterations(s)
    /\ \A i \in 1..Len(s.results) : s.results[i].success

CeilQuarter(n) == (n + 3) \div 4

LoopEnds(s) ==
    /\ Iterations(s) <= s.max_retries
    /\ s.pc \in {"load", "classify", "neednav", "navigate", "book"} =>
           s.remaining_tickets > 0 /\ s.booking_attempts <= s.max_retries
    /\ s.pc = "returned" =>
           \/ s.remaining_tickets = 0
           \/ s.booking_attempts >= s.max_retries
           \/ s.aborted

C38_DemoBotBounds ==
    bot.pc # "none" =>
        /\ bot.booked_tickets <= bot.ticket_count
        /\ bot.attempt_count <= bot.max_attempts
        /\ bot.available_tickets >= 0

=============================================================================
